---- MODULE Spec2Model ----
(***************************************************************************)
(* Verification model of the Noises backend: the PyTorch/CUDA runtime      *)
(* bootstrap (backend/cuda_setup.py) and the single-instance lock of the   *)
(* backend process, its supervision and the /generate handler              *)
(* (backend/main.py, backend/models).                                      *)
(*                                                                         *)
(* Nine specifications share the module:                                   *)
(*   SpecResolve  get_best_torch_variant applied to driver version strings *)
(*   SpecInstall  install_torch / load_torch runs over the on-disk cache   *)
(*   SpecLock     backend instances racing on the lock file                *)
(*   SpecSupervisor  the threads of one backend process: server, parent    *)
(*                watchdog, stdin watcher and /shutdown timers             *)
(*   SpecProbe    detect_nvidia_gpu / detect_cuda_version on a machine     *)
(*   SpecFinder   _find_matching_system_python on a host                   *)
(*   SpecPrepare  _prepare_torch_environment called repeatedly in a process*)
(*   SpecPreload  _preload_torch_dlls over the files of torch/lib          *)
(*   SpecGenerate a sequence of POST /generate requests over the two models*)
(***************************************************************************)
EXTENDS Integers, Sequences, FiniteSets, TLC

VARIABLES
  \* --- resolver (get_best_torch_variant) ---
  cuda_version_str,   \* the string handed to get_best_torch_variant
  resolvePc,          \* "start" | "returned" | "raised"
  resolved            \* the value returned (variant, url), None or the error

resolveVars == <<cuda_version_str, resolvePc, resolved>>

VARIABLES
  \* --- installer / launcher (install_torch, load_torch) ---
  build,    \* the build and its interpreter environment: frozen, venvTorch
  disk,     \* TORCH_CACHE_DIR on disk: directory, marker files, content
  stale,    \* history: the directory holds files of an earlier, unfinished install
  proc      \* the running process: entry point, position, locals, sys.path, sys.modules

installVars == <<build, disk, stale, proc>>

VARIABLES
  \* --- single-instance lock (_ensure_single_instance, _cleanup_lock) ---
  platform,  \* sys.platform of the machine: "win32" or "other"
  lockFile,  \* noises_backend.lock in the temp directory: exists, text
  inst       \* the backend instances: position, text read, old_pid, atexit hook

lockVars == <<platform, lockFile, inst>>

VARIABLES
  \* --- process supervision (__main__, _monitor_parent, watch_stdin, /shutdown) ---
  sup        \* one backend process: its threads, its parent, its stdin, its end

supVars == <<sup>>

VARIABLES
  \* --- capability probes (detect_nvidia_gpu, detect_cuda_version) ---
  probe      \* one probe call: the machine, the function, its position and result

probeVars == <<probe>>

VARIABLES
  \* --- interpreter discovery (_find_matching_system_python) ---
  finder     \* one call: the host it runs on, its position and what it returned

finderVars == <<finder>>

VARIABLES
  \* --- environment preparation (_prepare_torch_environment, _register_dll_directories) ---
  mach,      \* the machine and the process: platform, _MEIPASS, directories on disk
  penv,      \* the search state: sys.path, PYTHONPATH, PATH, loader registrations
  prep       \* the calls of _prepare_torch_environment: count, position, locals

prepareVars == <<mach, penv, prep>>

VARIABLES
  \* --- library preloading (_preload_torch_dlls) ---
  pre        \* one call: the files of torch/lib, position, load order, attempts

preloadVars == <<pre>>

VARIABLES
  \* --- audio generation (POST /generate, ACEStepModel, StableAudioOpenModel) ---
  gen        \* the two model objects and the request being handled

generateVars == <<gen>>

vars == <<resolveVars, installVars, lockVars, supVars, probeVars, finderVars, prepareVars, preloadVars, generateVars>>

\* what each specification leaves alone
outsideResolve == <<installVars, lockVars, supVars, probeVars, finderVars, prepareVars, preloadVars, generateVars>>

outsideInstall == <<resolveVars, lockVars, supVars, probeVars, finderVars, prepareVars, preloadVars, generateVars>>

outsideLock == <<resolveVars, installVars, supVars, probeVars, finderVars, prepareVars, preloadVars, generateVars>>

outsideSup == <<resolveVars, installVars, lockVars, probeVars, finderVars, prepareVars, preloadVars, generateVars>>

outsideProbe == <<resolveVars, installVars, lockVars, supVars, finderVars, prepareVars, preloadVars, generateVars>>

outsideFinder == <<resolveVars, installVars, lockVars, supVars, probeVars, prepareVars, preloadVars, generateVars>>

outsidePrepare == <<resolveVars, installVars, lockVars, supVars, probeVars, finderVars, preloadVars, generateVars>>

outsidePreload == <<resolveVars, installVars, lockVars, supVars, probeVars, finderVars, prepareVars, generateVars>>

outsideGenerate == <<resolveVars, installVars, lockVars, supVars, probeVars, finderVars, prepareVars, preloadVars>>

(***************************************************************************)
(* Bounds                                                                  *)
(***************************************************************************)
MaxVersionLen == 4     \* longest driver version string explored

(***************************************************************************)
(* Characters of a driver version token: the regex [\d.]+ of               *)
(* detect_cuda_version yields non-empty strings of digits and dots.        *)
(***************************************************************************)
Digits == {"0", "1", "2", "3", "4", "5", "6", "7", "8", "9"}

Dot == "."

VersionChars == Digits \cup {Dot}

DigitVal(c) ==
  CASE c = "0" -> 0 [] c = "1" -> 1 [] c = "2" -> 2 [] c = "3" -> 3
    [] c = "4" -> 4 [] c = "5" -> 5 [] c = "6" -> 6 [] c = "7" -> 7
    [] c = "8" -> 8 [] c = "9" -> 9

VersionStrings == UNION {[1..n -> VersionChars] : n \in 1..MaxVersionLen}

None == [kind |-> "None"]

(***************************************************************************)
(* str.split("."): the parts between the dots, empty parts included.       *)
(***************************************************************************)
RECURSIVE Split(_)
Split(s) ==
  IF \A i \in 1..Len(s) : s[i] # Dot
  THEN <<s>>
  ELSE LET k == CHOOSE i \in 1..Len(s) :
                  s[i] = Dot /\ \A j \in 1..(i - 1) : s[j] # Dot
       IN <<SubSeq(s, 1, k - 1)>> \o Split(SubSeq(s, k + 1, Len(s)))

(***************************************************************************)
(* int(p) on a part: ValueError on the empty string, else the decimal      *)
(* value (leading zeros allowed).                                          *)
(***************************************************************************)
RECURSIVE DecimalValue(_)
DecimalValue(p) ==
  IF p = <<>> THEN 0
  ELSE 10 * DecimalValue(SubSeq(p, 1, Len(p) - 1)) + DigitVal(p[Len(p)])

IntRaises(p) == p = <<>>

(***************************************************************************)
(* _parse_version: tuple(int(p) for p in version_str.strip().split(".")[:2])*)
(* The result has ONE element when the string holds no dot.                *)
(***************************************************************************)
parse_version(version_str) ==
  LET parts == Split(version_str)
      first == SubSeq(parts, 1, IF Len(parts) < 2 THEN Len(parts) ELSE 2)
  IN IF \E i \in 1..Len(first) : IntRaises(first[i])
     THEN [kind |-> "ValueError"]
     ELSE [kind |-> "tuple",
           val  |-> [i \in 1..Len(first) |-> DecimalValue(first[i])]]

(***************************************************************************)
(* Python's tuple comparison a >= b: lexicographic, and a proper prefix is *)
(* smaller than the longer tuple.                                          *)
(***************************************************************************)
TupleGE(a, b) ==
  LET n == IF Len(a) < Len(b) THEN Len(a) ELSE Len(b)
      diff == {i \in 1..n : a[i] # b[i]}
  IN IF diff = {}
     THEN Len(a) >= Len(b)
     ELSE LET k == CHOOSE i \in diff : \A j \in diff : i <= j
          IN a[k] > b[k]

TORCH_CUDA_VARIANTS ==
  << [min_ver |-> <<13, 0>>, variant |-> "cu130", url |-> "whl/cu130"],
     [min_ver |-> <<12, 8>>, variant |-> "cu128", url |-> "whl/cu128"],
     [min_ver |-> <<12, 6>>, variant |-> "cu126", url |-> "whl/cu126"],
     [min_ver |-> <<12, 4>>, variant |-> "cu124", url |-> "whl/cu124"],
     [min_ver |-> <<12, 1>>, variant |-> "cu121", url |-> "whl/cu121"],
     [min_ver |-> <<11, 8>>, variant |-> "cu118", url |-> "whl/cu118"] >>

\* variant of get_best_torch_variant that falls back to the oldest entry
get_best_torch_variant_FallbackOldest(version_str) ==
  LET cuda_ver == parse_version(version_str)
      last == TORCH_CUDA_VARIANTS[Len(TORCH_CUDA_VARIANTS)]
  IN IF cuda_ver.kind = "ValueError" THEN [kind |-> "ValueError"]
     ELSE LET hits == {i \in 1..Len(TORCH_CUDA_VARIANTS) :
                         TupleGE(cuda_ver.val, TORCH_CUDA_VARIANTS[i].min_ver)}
              k == IF hits = {} THEN Len(TORCH_CUDA_VARIANTS)
                   ELSE CHOOSE i \in hits : \A j \in hits : i <= j
          IN [kind    |-> "variant",
              variant |-> TORCH_CUDA_VARIANTS[k].variant,
              url     |-> TORCH_CUDA_VARIANTS[k].url]

(***************************************************************************)
(* get_best_torch_variant: first table entry (newest first) with           *)
(* cuda_ver >= min_ver; (None, None) when no entry qualifies; the          *)
(* ValueError of _parse_version propagates.                                *)
(***************************************************************************)
get_best_torch_variant(version_str) ==
  LET cuda_ver == parse_version(version_str)
  IN IF cuda_ver.kind = "ValueError" THEN [kind |-> "ValueError"]
     ELSE LET hits == {i \in 1..Len(TORCH_CUDA_VARIANTS) :
                         TupleGE(cuda_ver.val, TORCH_CUDA_VARIANTS[i].min_ver)}
          IN IF hits = {} THEN None
             ELSE LET k == CHOOSE i \in hits : \A j \in hits : i <= j
                  IN [kind    |-> "variant",
                      variant |-> TORCH_CUDA_VARIANTS[k].variant,
                      url     |-> TORCH_CUDA_VARIANTS[k].url]

(***************************************************************************)
(* Installer state.                                                        *)
(*                                                                         *)
(* disk.tree is what TORCH_CACHE_DIR holds: "none", "partial" (files left  *)
(* by a pip run that did not finish) or "full" (pip exited 0: torch/ and   *)
(* torchaudio/ are there, so TORCH_CACHE_DIR/torch is a directory).        *)
(* disk.loadable says whether the installed torch imports on this machine  *)
(* (its DLL dependencies resolve); pip's exit code does not tell.          *)
(***************************************************************************)
NoError == [kind |-> "None", url |-> "", logref |-> FALSE, cause |-> ""]

Err(kind, url, logref, cause) ==
  [kind |-> kind, url |-> url, logref |-> logref, cause |-> cause]

NoVariant == [kind |-> "None", variant |-> "", url |-> ""]

NoPython == [found |-> FALSE, cand |-> "", execVer |-> ""]

EmptyDisk ==
  [cacheDir |-> FALSE, setupComplete |-> FALSE, variantFile |-> "absent",
   tree |-> "none", loadable |-> FALSE]

\* A directory left behind by an install that was interrupted or failed.
PartialDisk ==
  [cacheDir |-> TRUE, setupComplete |-> FALSE, variantFile |-> "absent",
   tree |-> "partial", loadable |-> FALSE]

FreshProc ==
  [runs |-> 0, entry |-> "none", pc |-> "idle", inline |-> FALSE,
   cuda_version |-> <<>>, variant |-> NoVariant, installed |-> FALSE,
   py |-> NoPython, events |-> <<>>, error |-> NoError, result |-> "",
   failureLogged |-> FALSE,
   sysPathHasCache |-> FALSE, importedTorch |-> "none"]

InstallIdle ==
  /\ build = [frozen |-> FALSE, venvTorch |-> "none"]
  /\ disk = EmptyDisk
  /\ stale = FALSE
  /\ proc = FreshProc

(***************************************************************************)
(* Lock state.  The lock file holds text; instance i has PID i.            *)
(***************************************************************************)
MaxInstances == 2      \* backend instances started per behaviour

Instances == 1..MaxInstances

NoLockFile == [exists |-> FALSE, text |-> <<>>]

FreshInstance ==
  [pc |-> "notstarted", text |-> <<>>, old_pid |-> 0, registered |-> FALSE,
   exitStatus |-> -1, pidReused |-> FALSE]

FreshSupervisor ==
  [parentSupplied |-> FALSE, parentAlive |-> TRUE, stdin |-> "open",
   main |-> "startup", monitor |-> "notstarted", watcher |-> "notstarted",
   killers |-> 0, requests |-> 0, signal |-> "none", helper |-> FALSE,
   terminations |-> 0, lockCleanups |-> 0,
   state |-> "running", exitVia |-> "none", cause |-> "none"]

SupIdle == sup = FreshSupervisor

FreshProbe ==
  [fn |-> "none", onPath |-> FALSE, sys32 |-> FALSE, nvsmiDir |-> FALSE,
   pc |-> "idle", nvsmi |-> "None", run |-> "none", result |-> "none"]

ProbeIdle == probe = FreshProbe

FinderIdle == finder = [host |-> "none", pc |-> "idle", result |-> NoPython]

FreshMachine ==
  [platform |-> "other", meipass |-> "none", torchTree |-> FALSE,
   nvidiaPkg |-> FALSE, cuda |-> FALSE, path0 |-> <<>>, pythonpath0 |-> <<>>]

FreshSearchState ==
  [sysPath |-> <<>>, PYTHONPATH |-> <<>>, PATH |-> <<>>,
   dllDirs |-> <<>>, regFailed |-> FALSE]

FreshPrepare ==
  [calls |-> 0, pc |-> "idle", dirs |-> <<>>, i |-> 0, after |-> <<>>]

PrepareIdle ==
  /\ mach = FreshMachine
  /\ penv = FreshSearchState
  /\ prep = FreshPrepare

FreshPreload ==
  [files |-> {}, pc |-> "idle", load_order |-> <<>>, i |-> 0,
   attempts |-> <<>>, failed |-> FALSE]

PreloadIdle == pre = FreshPreload

\* ACEStepModel.__init__ / StableAudioOpenModel.__init__: pipe = None,
\* is_loaded = False
FreshModel == [pipe |-> FALSE, is_loaded |-> FALSE]

FreshGenerate ==
  [acestep |-> FreshModel, stable_audio |-> FreshModel,
   pc |-> "idle", type |-> "none", requests |-> 0,
   switched |-> FALSE, produced |-> FALSE, response |-> "none"]

GenerateIdle == gen = FreshGenerate

LockIdle ==
  /\ platform = "win32"
  /\ lockFile = NoLockFile
  /\ inst = [i \in Instances |-> FreshInstance]


(***************************************************************************)
(* Specification SpecResolve                                               *)
(***************************************************************************)
ResolveInit ==
  /\ cuda_version_str \in VersionStrings
  /\ resolvePc = "start"
  /\ resolved = None
  /\ InstallIdle
  /\ LockIdle
  /\ SupIdle
  /\ ProbeIdle
  /\ FinderIdle
  /\ PrepareIdle
  /\ PreloadIdle
  /\ GenerateIdle

ResolveCall ==
  /\ resolvePc = "start"
  /\ resolved' = get_best_torch_variant(cuda_version_str)
  /\ resolvePc' = IF resolved'.kind = "ValueError" THEN "raised" ELSE "returned"
  /\ UNCHANGED <<cuda_version_str, outsideResolve>>

ResolveNext == ResolveCall

SpecResolve == ResolveInit /\ [][ResolveNext]_vars

(***************************************************************************)
(* C1.  For every driver version V, get_best_torch_variant(V) returns the  *)
(* table entry with the highest minimum version <= V, and NotSupported     *)
(* exactly when V is below the oldest entry, where a string with a single  *)
(* number ("13") denotes the same driver as "13.0".                        *)
(* Stated for the strings that denote a version: a non-empty major part    *)
(* and an absent or non-empty minor part.                                  *)
(***************************************************************************)
DenotesVersion(s) ==
  LET parts == Split(s)
  IN /\ parts[1] # <<>>
     /\ Len(parts) >= 2 => parts[2] # <<>>

DenotedVersion(s) ==
  LET parts == Split(s)
  IN <<DecimalValue(parts[1]),
       IF Len(parts) >= 2 THEN DecimalValue(parts[2]) ELSE 0>>

VersionLE(a, b) == a[1] < b[1] \/ (a[1] = b[1] /\ a[2] <= b[2])

HighestQualifying(v) ==
  LET ok == {i \in 1..Len(TORCH_CUDA_VARIANTS) :
               VersionLE(TORCH_CUDA_VARIANTS[i].min_ver, v)}
  IN IF ok = {} THEN None
     ELSE LET k == CHOOSE i \in ok :
                     \A j \in ok : VersionLE(TORCH_CUDA_VARIANTS[j].min_ver,
                                             TORCH_CUDA_VARIANTS[i].min_ver)
          IN [kind    |-> "variant",
              variant |-> TORCH_CUDA_VARIANTS[k].variant,
              url     |-> TORCH_CUDA_VARIANTS[k].url]

C1_ResolveHighestQualifying ==
  (resolvePc # "start" /\ DenotesVersion(cuda_version_str))
    => resolved = HighestQualifying(DenotedVersion(cuda_version_str))

(***************************************************************************)
(* Installer: helpers                                                      *)
(***************************************************************************)
MaxRuns == 2           \* process runs (install-time or launch) per behaviour

Need == "3.12"         \* sys.version_info major.minor of the running binary

OtherVersion == "3.13" \* some other interpreter version present on the host

\* Status output tokens the probe can hand over (regex [\d.]+).
ProbeVersions ==
  { <<"1", "3", ".", "0">>, <<"1", "2", ".", "5">>, <<"1", "1", ".", "0">>,
    <<"1", "3">>, <<"1", "2", ".">> }

Ev(p, ev, res) == [p EXCEPT !.events = Append(@, [ev |-> ev, res |-> res])]

\* _log(msg) with a message that reports the failure about to end the call:
\* the message is appended to _LOG_FILE (lines 100-120)
Log(p, logs) == [p EXCEPT !.failureLogged = @ \/ logs]

\* variant of CacheValid that does not look at .setup_complete
CacheValid_NoMarker(d) == d.cacheDir /\ d.tree = "full"

CacheValid(d) == d.cacheDir /\ d.setupComplete /\ d.tree = "full"

\* variant of HasCuda that never reports CUDA support
HasCuda_Never(t) == t \in {}

HasCuda(t) == t \in {"cuda", "cache"}

(***************************************************************************)
(* `import torch` as _is_torch_importable and _torch_has_cuda run it: a    *)
(* module already in sys.modules is returned as it is; otherwise the first *)
(* torch package on sys.path is loaded (the cache, once it was inserted at *)
(* position 0 and holds torch/), and a failing load raises.                *)
(* Result: the module now in sys.modules, "none" when the import raised.   *)
(***************************************************************************)
ImportTorch(p, d, b) ==
  IF p.importedTorch # "none" THEN p.importedTorch
  ELSE IF p.sysPathHasCache /\ d.cacheDir /\ d.tree = "full"
       THEN (IF d.loadable THEN "cache" ELSE "none")
       ELSE b.venvTorch

(***************************************************************************)
(* How an exception / a return of install_torch continues: in load_torch   *)
(* the call sits in try/except and the error is re-raised wrapped, with    *)
(* the log file location.                                                  *)
(***************************************************************************)
\* variant of RaiseFromInstall in which load_torch lets the error through
RaiseFromInstall_Unwrapped(p, e) == [p EXCEPT !.pc = "raised", !.error = e]

RaiseFromInstall(p, e) ==
  IF p.inline
  THEN [Log(p, TRUE) EXCEPT !.pc = "raised",
                 !.error = Err("SetupFailed", e.url, TRUE, e.kind)]
  ELSE [p EXCEPT !.pc = "raised", !.error = e]

ReturnFromInstall(p, res) ==
  IF p.inline
  THEN [p EXCEPT !.pc = "lt_prepare"]
  ELSE [p EXCEPT !.pc = "done", !.result = res]

(***************************************************************************)
(* _find_matching_system_python over a host.                               *)
(* A host gives, for the py launcher and for each command name, whether it *)
(* is on PATH and what the version query and `-m pip --version` answer:    *)
(*   "absent"   shutil.which finds nothing                                 *)
(*   "mismatch" the version query prints another version, nothing, or fails*)
(*   "nopip"    the version matches, pip --version exits non-zero          *)
(*   "ok"       the version matches and pip is invocable                   *)
(* For the launcher the query is `py -X.Y`, and launcherDefault is the     *)
(* version `py` starts when it is given no version flag.                   *)
(***************************************************************************)
CandStates == {"absent", "mismatch", "nopip", "ok"}

CommandNames == <<"pythonX.Y", "pythonX", "python", "python3">>

Hosts ==
  { h \in [launcher : CandStates, launcherDefault : {Need, OtherVersion},
           cmds : [1..Len(CommandNames) -> CandStates]] :
      h.launcher = "absent" => h.launcherDefault = Need }

\* candidates, in the order of the list after insert(0, launcher)
Candidates(h) ==
  (IF h.launcher # "absent" THEN <<"__py_launcher__">> ELSE <<>>)
    \o CommandNames

CandState(h, c) ==
  IF c = "__py_launcher__" THEN h.launcher
  ELSE h.cmds[CHOOSE i \in 1..Len(CommandNames) : CommandNames[i] = c]

\* The function returns `exe` only: for the launcher that is the path of
\* py itself, so `exe -m pip` runs the launcher's default interpreter.
find_matching_system_python(h) ==
  LET cands == Candidates(h)
      ok == {i \in 1..Len(cands) : CandState(h, cands[i]) = "ok"}
  IN IF ok = {} THEN NoPython
     ELSE LET k == CHOOSE i \in ok : \A j \in ok : i <= j
          IN [found |-> TRUE, cand |-> cands[k],
              execVer |-> IF cands[k] = "__py_launcher__"
                          THEN h.launcherDefault ELSE Need]

(***************************************************************************)
(* A new process: install-time mode (--setup-torch, runs install_torch()   *)
(* once) or a normal launch (load_torch()).  sys.path and sys.modules are  *)
(* per process.                                                            *)
(***************************************************************************)
Ended == {"idle", "done", "raised", "killed"}

StartProcess ==
  /\ proc.pc \in Ended
  /\ proc.runs < MaxRuns
  /\ \E e \in {"install", "load"} :
       proc' = [FreshProc EXCEPT !.runs = proc.runs + 1, !.entry = e,
                                 !.pc = IF e = "install" THEN "it_check"
                                        ELSE "lt_importable"]
  /\ stale' = (disk.cacheDir /\ ~disk.setupComplete)
  /\ UNCHANGED <<build, disk, outsideInstall>>

\* The process is killed (or the machine goes down) between two steps.
Kill ==
  /\ proc.pc \notin Ended
  /\ proc' = [proc EXCEPT !.pc = "killed"]
  /\ UNCHANGED <<build, disk, stale, outsideInstall>>

(***************************************************************************)
(* install_torch                                                           *)
(***************************************************************************)
\* variant of ItCheck without the early return
ItCheck_NoEarlyReturn ==
  /\ proc.pc = "it_check"
  /\ proc' = [proc EXCEPT !.pc = "it_probe_gpu"]
  /\ UNCHANGED <<build, disk, stale, outsideInstall>>

\* lines 891-899: already installed and valid -> return
ItCheck ==
  /\ proc.pc = "it_check"
  /\ proc' = IF CacheValid(disk)
             THEN ReturnFromInstall(proc, "already_installed")
             ELSE [proc EXCEPT !.pc = "it_probe_gpu"]
  /\ UNCHANGED <<build, disk, stale, outsideInstall>>

\* variant of ItProbeGpu that goes on without a GPU
ItProbeGpu_NoRaise ==
  /\ proc.pc = "it_probe_gpu"
  /\ \E gpu \in BOOLEAN :
       proc' = [Ev(proc, "probe_gpu", IF gpu THEN "name" ELSE "None")
                  EXCEPT !.pc = "it_probe_cuda"]
  /\ UNCHANGED <<build, disk, stale, outsideInstall>>

\* lines 904-911: detect_nvidia_gpu().  The probe logs when nvidia-smi is
\* not found or cannot be run (lines 166, 176), and says nothing when it
\* exits non-zero or prints nothing; install_torch raises without logging.
ItProbeGpu ==
  /\ proc.pc = "it_probe_gpu"
  /\ \E gpu \in BOOLEAN, logs \in BOOLEAN :
       /\ gpu => ~logs
       /\ proc' = IF gpu
                  THEN [Ev(proc, "probe_gpu", "name") EXCEPT !.pc = "it_probe_cuda"]
                  ELSE RaiseFromInstall(Log(Ev(proc, "probe_gpu", "None"), logs),
                                        Err("HardwareAbsent", "", FALSE, ""))
  /\ UNCHANGED <<build, disk, stale, outsideInstall>>

\* lines 913-920: detect_cuda_version(), which logs only when nvidia-smi
\* cannot be run (line 197)
ItProbeCuda ==
  /\ proc.pc = "it_probe_cuda"
  /\ \/ \E logs \in BOOLEAN :
          proc' = RaiseFromInstall(Log(Ev(proc, "probe_cuda", "None"), logs),
                                  Err("CudaVersionUndetected", "", FALSE, ""))
     \/ \E v \in ProbeVersions :
          proc' = [Ev(proc, "probe_cuda", "version")
                     EXCEPT !.pc = "it_resolve", !.cuda_version = v]
  /\ UNCHANGED <<build, disk, stale, outsideInstall>>

\* lines 922-929: get_best_torch_variant; its ValueError is not caught
ItResolve ==
  /\ proc.pc = "it_resolve"
  /\ LET r == get_best_torch_variant(proc.cuda_version)
     IN proc' =
          IF r.kind = "ValueError"
          THEN RaiseFromInstall(proc, Err("ValueError", "", FALSE, ""))
          ELSE IF r.kind = "None"
          THEN RaiseFromInstall(proc, Err("DriverIncompatible", "", FALSE, ""))
          ELSE [proc EXCEPT !.pc = "in_clean", !.variant = r]
  /\ UNCHANGED <<build, disk, stale, outsideInstall>>

(***************************************************************************)
(* _install_torch                                                          *)
(***************************************************************************)
\* variant of CleanIncomplete that keeps the directory
CleanIncomplete_Keep(d) == d

\* lines 761-763: a directory without .setup_complete is removed
CleanIncomplete(d) ==
  IF d.cacheDir /\ ~d.setupComplete THEN EmptyDisk ELSE d

InClean ==
  /\ proc.pc = "in_clean"
  /\ disk' = CleanIncomplete(disk)
  /\ stale' = IF disk' # disk THEN FALSE ELSE stale
  /\ proc' = [(IF disk' # disk THEN Ev(proc, "rmtree", "") ELSE proc)
                EXCEPT !.pc = "in_mkdir"]
  /\ UNCHANGED <<build, outsideInstall>>

\* variant of FirstStrategy that tries pip as a library in every build
FirstStrategy_AlwaysLibrary(b) == "in_s1"

\* lines 786-790: strategy 1 is skipped in a frozen executable
FirstStrategy(b) == IF ~b.frozen THEN "in_s1" ELSE "in_s2"

\* line 765: TORCH_CACHE_DIR.mkdir(parents=True, exist_ok=True)
InMkdir ==
  /\ proc.pc = "in_mkdir"
  /\ disk' = [disk EXCEPT !.cacheDir = TRUE]
  /\ proc' = [Ev(proc, "mkdir", "") EXCEPT !.pc = FirstStrategy(build)]
  /\ UNCHANGED <<build, stale, outsideInstall>>

\* pip exited 0: torch and torchaudio are in the target directory
PipSuccess(d, loadable) == [d EXCEPT !.tree = "full", !.loadable = loadable]

\* pip failed: it may have left files in the target directory
PipFailure(d, leaves) ==
  IF leaves /\ d.tree = "none" THEN [d EXCEPT !.tree = "partial"] ELSE d

Installed(p, ev, res) ==
  [Ev(p, ev, res) EXCEPT !.installed = TRUE, !.pc = "in_write_variant"]

\* lines 790-806: pip as a library.  Only ImportError and SystemExit are
\* caught: the RuntimeError raised on a non-zero return value leaves
\* _install_torch.
Strategy1Outcomes ==
  {"ImportError", "returned_0", "returned_nonzero", "SystemExit_0",
   "SystemExit_nonzero"}

InStrategy1 ==
  /\ proc.pc = "in_s1"
  /\ \E out \in Strategy1Outcomes, leaves \in BOOLEAN, loadable \in BOOLEAN :
       \/ /\ out = "ImportError" /\ ~leaves /\ ~loadable
          /\ proc' = [Ev(proc, "a", out) EXCEPT !.pc = "in_s2"]
          /\ disk' = disk
       \/ /\ out \in {"returned_0", "SystemExit_0"} /\ ~leaves
          /\ proc' = Installed(proc, "a", out)
          /\ disk' = PipSuccess(disk, loadable)
       \/ /\ out = "SystemExit_nonzero" /\ ~loadable
          /\ proc' = [Ev(proc, "a", out) EXCEPT !.pc = "in_s2"]
          /\ disk' = PipFailure(disk, leaves)
       \/ /\ out = "returned_nonzero" /\ ~loadable
          /\ proc' = RaiseFromInstall(Ev(proc, "a", out),
                        Err("PipExitCode", "", FALSE, ""))
          /\ disk' = PipFailure(disk, leaves)
  /\ UNCHANGED <<build, stale, outsideInstall>>

\* lines 811-814: look for an interpreter of the same major.minor
InStrategy2Find ==
  /\ proc.pc = "in_s2"
  /\ \E h \in Hosts :
       LET py == find_matching_system_python(h)
       IN proc' = IF py.found
                  THEN [proc EXCEPT !.pc = "in_s2_run", !.py = py]
                  ELSE [Ev(proc, "b", "no_python") EXCEPT !.pc = "in_s3"]
  /\ UNCHANGED <<build, disk, stale, outsideInstall>>

RunOutcomes == {"rc_0", "rc_nonzero", "exception"}

\* lines 815-833: [py, "-m", "pip"] + pip_args
InStrategy2Run ==
  /\ proc.pc = "in_s2_run"
  /\ \E out \in RunOutcomes, leaves \in BOOLEAN, loadable \in BOOLEAN :
       \/ /\ out = "rc_0" /\ ~leaves
          /\ proc' = Installed(proc, "b", out)
          /\ disk' = PipSuccess(disk, loadable)
       \/ /\ out # "rc_0" /\ ~loadable
          /\ proc' = [Ev(proc, "b", out) EXCEPT !.pc = "in_s3"]
          /\ disk' = PipFailure(disk, leaves)
  /\ UNCHANGED <<build, stale, outsideInstall>>

\* variant of InStrategy3 without the `if not installed: raise`
InStrategy3_NoRaise ==
  /\ proc.pc = "in_s3"
  /\ \E out \in RunOutcomes, leaves \in BOOLEAN, loadable \in BOOLEAN :
       \/ /\ out = "rc_0" /\ ~leaves
          /\ proc' = Installed(proc, "c", out)
          /\ disk' = PipSuccess(disk, loadable)
       \/ /\ out # "rc_0" /\ ~loadable
          /\ proc' = [Ev(proc, "c", out) EXCEPT !.pc = "in_write_variant"]
          /\ disk' = PipFailure(disk, leaves)
  /\ UNCHANGED <<build, stale, outsideInstall>>

\* lines 836-863: [sys.executable, "-m", "pip"] + pip_args, then the
\* `if not installed: raise` with the manual command and the index URL
InStrategy3 ==
  /\ proc.pc = "in_s3"
  /\ \E out \in RunOutcomes, leaves \in BOOLEAN, loadable \in BOOLEAN :
       \/ /\ out = "rc_0" /\ ~leaves
          /\ proc' = Installed(proc, "c", out)
          /\ disk' = PipSuccess(disk, loadable)
       \/ /\ out # "rc_0" /\ ~loadable
          /\ proc' = RaiseFromInstall(Log(Ev(proc, "c", out), TRUE),
                        Err("AcquisitionFailed", proc.variant.url, FALSE, ""))
          /\ disk' = PipFailure(disk, leaves)
  /\ UNCHANGED <<build, stale, outsideInstall>>

\* variant of WriteVariant that leaves the variant-tag file unwritten
WriteVariant_Skip(d, p) == d

\* line 866: _VARIANT_FILE.write_text(variant)
WriteVariant(d, p) == [d EXCEPT !.variantFile = p.variant.variant]

InWriteVariant ==
  /\ proc.pc = "in_write_variant"
  /\ disk' = WriteVariant(disk, proc)
  /\ proc' = [Ev(proc, "write_variant", "") EXCEPT !.pc = "in_write_marker"]
  /\ UNCHANGED <<build, stale, outsideInstall>>

\* variant of InWriteMarker after which the import check runs unprepared
InWriteMarker_SkipPrepare ==
  /\ proc.pc = "in_write_marker"
  /\ disk' = [disk EXCEPT !.setupComplete = TRUE]
  /\ proc' = [Ev(proc, "write_marker", "") EXCEPT !.pc = "it_import"]
  /\ UNCHANGED <<build, stale, outsideInstall>>

\* line 867: _SETUP_COMPLETE.write_text("ok"); _install_torch returns
InWriteMarker ==
  /\ proc.pc = "in_write_marker"
  /\ disk' = [disk EXCEPT !.setupComplete = TRUE]
  /\ proc' = [Ev(proc, "write_marker", "") EXCEPT !.pc = "it_prepare"]
  /\ UNCHANGED <<build, stale, outsideInstall>>

(***************************************************************************)
(* install_torch, after _install_torch: prepare the environment, verify    *)
(***************************************************************************)
\* _prepare_torch_environment: sys.path.insert(0, cache) and the DLL setup
Prepare(p) == [Ev(p, "prepare", "") EXCEPT !.sysPathHasCache = TRUE]

\* line 936
ItPrepare ==
  /\ proc.pc = "it_prepare"
  /\ proc' = [Prepare(proc) EXCEPT !.pc = "it_import"]
  /\ UNCHANGED <<build, disk, stale, outsideInstall>>

\* lines 938-953
ItImport ==
  /\ proc.pc = "it_import"
  /\ LET m == ImportTorch(proc, disk, build)
     IN proc' =
          IF m = "none"
          THEN RaiseFromInstall(Log(Ev(proc, "import", "failed"), TRUE),
                                Err("VerificationFailed", "", FALSE, ""))
          ELSE ReturnFromInstall(
                 [Ev(proc, "import", m) EXCEPT !.importedTorch = m], "installed")
  /\ UNCHANGED <<build, disk, stale, outsideInstall>>

(***************************************************************************)
(* load_torch                                                              *)
(***************************************************************************)
\* variant of LtImportable that returns for a CPU-only torch in any build
LtImportable_NoFrozenCheck ==
  /\ proc.pc = "lt_importable"
  /\ LET m == ImportTorch(proc, disk, build)
         p == [Ev(proc, "import", IF m = "none" THEN "failed" ELSE m)
                 EXCEPT !.importedTorch = m]
     IN proc' =
          IF m # "none" /\ HasCuda(m)
          THEN [p EXCEPT !.pc = "done", !.result = "ready_cuda"]
          ELSE IF m # "none"
          THEN [p EXCEPT !.pc = "done", !.result = "warned_cpu_only"]
          ELSE [p EXCEPT !.pc = "lt_cache"]
  /\ UNCHANGED <<build, disk, stale, outsideInstall>>

\* lines 968-978
LtImportable ==
  /\ proc.pc = "lt_importable"
  /\ LET m == ImportTorch(proc, disk, build)
         p == [Ev(proc, "import", IF m = "none" THEN "failed" ELSE m)
                 EXCEPT !.importedTorch = m]
     IN proc' =
          IF m # "none" /\ HasCuda(m)
          THEN [p EXCEPT !.pc = "done", !.result = "ready_cuda"]
          ELSE IF m # "none" /\ ~build.frozen
          THEN [p EXCEPT !.pc = "done", !.result = "warned_cpu_only"]
          ELSE [p EXCEPT !.pc = "lt_cache"]
  /\ UNCHANGED <<build, disk, stale, outsideInstall>>

\* lines 981-1004: an invalid cache -> install_torch() inline
LtCache ==
  /\ proc.pc = "lt_cache"
  /\ proc' = IF CacheValid(disk)
             THEN [proc EXCEPT !.pc = "lt_prepare"]
             ELSE [proc EXCEPT !.pc = "it_check", !.inline = TRUE]
  /\ UNCHANGED <<build, disk, stale, outsideInstall>>

\* line 1007
LtPrepare ==
  /\ proc.pc = "lt_prepare"
  /\ proc' = [Prepare(proc) EXCEPT !.pc = "lt_import"]
  /\ UNCHANGED <<build, disk, stale, outsideInstall>>

\* lines 1009-1022
LtImport ==
  /\ proc.pc = "lt_import"
  /\ LET m == ImportTorch(proc, disk, build)
     IN proc' =
          IF m = "none"
          THEN [Log(Ev(proc, "import", "failed"), TRUE)
                  EXCEPT !.pc = "raised",
                         !.error = Err("CacheUnloadable", "", TRUE, "")]
          ELSE [Ev(proc, "import", m)
                  EXCEPT !.importedTorch = m, !.pc = "done", !.result = "ready"]
  /\ UNCHANGED <<build, disk, stale, outsideInstall>>

(***************************************************************************)
(* Specification SpecInstall                                               *)
(***************************************************************************)
ResolveIdle ==
  /\ cuda_version_str = <<>>
  /\ resolvePc = "idle"
  /\ resolved = None

InstallInit ==
  /\ build \in [frozen : BOOLEAN, venvTorch : {"none", "cpu", "cuda"}]
  /\ disk \in {EmptyDisk, PartialDisk}
  /\ stale = disk.cacheDir
  /\ proc = FreshProc
  /\ ResolveIdle
  /\ LockIdle
  /\ SupIdle
  /\ ProbeIdle
  /\ FinderIdle
  /\ PrepareIdle
  /\ PreloadIdle
  /\ GenerateIdle

InstallNext ==
  \/ StartProcess \/ Kill
  \/ ItCheck \/ ItProbeGpu \/ ItProbeCuda \/ ItResolve
  \/ InClean \/ InMkdir
  \/ InStrategy1 \/ InStrategy2Find \/ InStrategy2Run \/ InStrategy3
  \/ InWriteVariant \/ InWriteMarker
  \/ ItPrepare \/ ItImport
  \/ LtImportable \/ LtCache \/ LtPrepare \/ LtImport

SpecInstall == InstallInit /\ [][InstallNext]_vars

(***************************************************************************)
(* Single-instance lock (main.py)                                          *)
(***************************************************************************)
\* PIDs that are not backend instances: one of a process that is gone
\* (a lock left behind by os._exit) and one of some running process.
GonePids == {7}

ForeignLivePids == {9}

\* str(os.getpid()): the decimal digits of the PID
DigitChar(d) == CHOOSE c \in Digits : DigitVal(c) = d

RECURSIVE PidText(_)
PidText(n) ==
  IF n < 10 THEN <<DigitChar(n)>>
  ELSE Append(PidText(n \div 10), DigitChar(n % 10))

\* int(f.read().strip()) raises ValueError unless the text is a decimal number
IsDecimal(text) == text # <<>> /\ \A k \in 1..Len(text) : text[k] \in Digits

Garbage == <<"x">>

\* processes the operating system knows as running: the instances that
\* run, the PIDs of ended instances that were handed to another process,
\* and the other processes of the machine
LivePids ==
  {i \in Instances : inst[i].pc \notin {"notstarted", "dead", "exited"}}
    \cup {i \in Instances : inst[i].pidReused}
    \cup ForeignLivePids

\* variant of OpenProcess whose result always counts as a handle
OpenProcess_AlwaysHandle(pid) == pid = pid

\* kernel32.OpenProcess(SYNCHRONIZE, False, pid): a handle iff the PID runs
OpenProcess(pid) == pid \in LivePids

\* instance i is launched: __main__ calls _ensure_single_instance()
Launch(i) ==
  /\ inst[i].pc = "notstarted"
  /\ inst' = [inst EXCEPT ![i].pc = "exists"]
  /\ UNCHANGED <<platform, lockFile, outsideLock>>

\* line 93: os.path.exists(lock_path)
EsiExists(i) ==
  /\ inst[i].pc = "exists"
  /\ inst' = [inst EXCEPT ![i].pc = IF lockFile.exists THEN "read" ELSE "write"]
  /\ UNCHANGED <<platform, lockFile, outsideLock>>

\* lines 95-96: open and read, int(); FileNotFoundError (an OSError) and
\* ValueError are caught: stale lock
EsiRead(i) ==
  /\ inst[i].pc = "read"
  /\ inst' =
       IF ~lockFile.exists
       THEN [inst EXCEPT ![i].pc = "write"]
       ELSE IF ~IsDecimal(lockFile.text)
       THEN [inst EXCEPT ![i].pc = "write", ![i].text = lockFile.text]
       ELSE [inst EXCEPT ![i].pc = "open_process", ![i].text = lockFile.text,
                         ![i].old_pid = DecimalValue(lockFile.text)]
  /\ UNCHANGED <<platform, lockFile, outsideLock>>

\* lines 97-106: ctypes.windll exists on Windows only; elsewhere the
\* AttributeError is caught and the lock counts as stale
EsiOpenProcess(i) ==
  /\ inst[i].pc = "open_process"
  /\ inst' =
       IF platform = "win32" /\ OpenProcess(inst[i].old_pid)
       THEN [inst EXCEPT ![i].pc = "exited", ![i].exitStatus = 0]
       ELSE [inst EXCEPT ![i].pc = "write"]
  /\ UNCHANGED <<platform, lockFile, outsideLock>>

\* lines 109-112: write our PID, register the cleanup
WriteLock(i) == [exists |-> TRUE, text |-> PidText(i)]

EsiWrite(i) ==
  /\ inst[i].pc = "write"
  /\ lockFile' = WriteLock(i)
  /\ inst' = [inst EXCEPT ![i].pc = "running", ![i].registered = TRUE]
  /\ UNCHANGED <<platform, outsideLock>>

\* the interpreter exits (sys.exit, uvicorn returns): atexit hooks run
ExitNormally(i) ==
  /\ inst[i].pc = "running"
  /\ inst' = [inst EXCEPT ![i].pc = "cl_exists"]
  /\ UNCHANGED <<platform, lockFile, outsideLock>>

\* os._exit(0) (/shutdown, _monitor_parent) or a kill: no atexit hook runs
ExitForced(i) ==
  /\ inst[i].pc \in {"running", "cl_exists", "cl_read", "cl_remove"}
  /\ inst' = [inst EXCEPT ![i].pc = "dead", ![i].exitStatus = 0]
  /\ UNCHANGED <<platform, lockFile, outsideLock>>

\* environment: the operating system gives the PID of an ended instance to
\* a new process that has nothing to do with the backend
PidReused(i) ==
  /\ inst[i].pc = "dead"
  /\ ~inst[i].pidReused
  /\ inst' = [inst EXCEPT ![i].pidReused = TRUE]
  /\ UNCHANGED <<platform, lockFile, outsideLock>>

\* _cleanup_lock, line 82
ClExists(i) ==
  /\ inst[i].pc = "cl_exists"
  /\ inst' = [inst EXCEPT ![i].pc = IF lockFile.exists THEN "cl_read" ELSE "dead",
                          ![i].exitStatus = IF lockFile.exists THEN @ ELSE 0]
  /\ UNCHANGED <<platform, lockFile, outsideLock>>

\* _cleanup_lock, lines 83-85
ClRead(i) ==
  /\ inst[i].pc = "cl_read"
  /\ inst' =
       IF lockFile.exists /\ IsDecimal(lockFile.text)
          /\ DecimalValue(lockFile.text) = i
       THEN [inst EXCEPT ![i].pc = "cl_remove"]
       ELSE [inst EXCEPT ![i].pc = "dead", ![i].exitStatus = 0]
  /\ UNCHANGED <<platform, lockFile, outsideLock>>

\* _cleanup_lock, line 86: os.remove(lock_path); OSError is caught
ClRemove(i) ==
  /\ inst[i].pc = "cl_remove"
  /\ lockFile' = NoLockFile
  /\ inst' = [inst EXCEPT ![i].pc = "dead", ![i].exitStatus = 0]
  /\ UNCHANGED <<platform, outsideLock>>

(***************************************************************************)
(* Specification SpecLock                                                  *)
(***************************************************************************)
LockInit ==
  /\ platform \in {"win32", "other"}
  /\ lockFile \in {NoLockFile} \cup
       {[exists |-> TRUE, text |-> t] :
          t \in {Garbage} \cup {PidText(n) : n \in GonePids \cup ForeignLivePids}}
  /\ inst = [i \in Instances |-> FreshInstance]
  /\ ResolveIdle
  /\ InstallIdle
  /\ SupIdle
  /\ ProbeIdle
  /\ FinderIdle
  /\ PrepareIdle
  /\ PreloadIdle
  /\ GenerateIdle

LockNext ==
  \E i \in Instances :
    \/ Launch(i) \/ EsiExists(i) \/ EsiRead(i) \/ EsiOpenProcess(i)
    \/ EsiWrite(i) \/ ExitNormally(i) \/ ExitForced(i)
    \/ ClExists(i) \/ ClRead(i) \/ ClRemove(i)
    \/ PidReused(i)

SpecLock == LockInit /\ [][LockNext]_vars

(***************************************************************************)
(* Process supervision (backend/main.py, __main__ block and /shutdown).    *)
(* One backend process with its main thread (start-up, then uvicorn), the  *)
(* daemon thread _monitor_parent, the daemon thread watch_stdin and the    *)
(* kill_server threads started by POST /shutdown.  The parent process and  *)
(* the stdin pipe belong to the environment.                               *)
(***************************************************************************)
MaxShutdownRequests == 2

StdinStates == {"open", "eof", "none"}   \* "none": sys.stdin is None

Running == sup.state = "running"

\* os._exit(0) ends the process at once; leaving the main thread ends it
\* through the interpreter's shutdown.
\* sup.terminations counts the times the process ended, and
\* sup.lockCleanups the runs of the atexit hook _cleanup_lock, which
\* _ensure_single_instance registers (line 112) and only the interpreter's
\* own shutdown runs.
HooksRun(via) == via = "interpreter" /\ sup.main # "startup"

Terminate(via, cause) ==
  [sup EXCEPT !.state = "terminated", !.exitVia = via, !.cause = cause,
              !.terminations = @ + 1,
              !.lockCleanups = IF HooksRun(via) THEN @ + 1 ELSE @]

\* _ensure_single_instance (which may sys.exit(0) in the main thread),
\* _clean_old_mei_dirs and the argument parser.
MainStartup ==
  /\ Running
  /\ sup.main = "startup"
  /\ \E other_instance \in BOOLEAN :
       sup' = IF other_instance
                THEN Terminate("interpreter", "other_instance")
                ELSE [sup EXCEPT !.main = "start_monitor"]
  /\ UNCHANGED outsideSup

\* if args.parent_pid: Thread(target=_monitor_parent, daemon=True).start()
StartMonitor ==
  /\ Running
  /\ sup.main = "start_monitor"
  /\ sup' = [sup EXCEPT !.main = "start_watcher",
                        !.monitor = IF sup.parentSupplied THEN "lookup" ELSE @]
  /\ UNCHANGED outsideSup

\* Thread(target=watch_stdin, daemon=True).start(); uvicorn.run(...)
StartWatcher ==
  /\ Running
  /\ sup.main = "start_watcher"
  /\ sup' = [sup EXCEPT !.main = "serving", !.watcher = "check"]
  /\ UNCHANGED outsideSup

\* parent = psutil.Process(pid): raises for a PID that is not running, and
\* the handler of the enclosing try ends the process.
MonitorLookup ==
  /\ Running
  /\ sup.monitor = "lookup"
  /\ sup' = IF sup.parentAlive
              THEN [sup EXCEPT !.monitor = "poll"]
              ELSE Terminate("os._exit", "parent_lost")
  /\ UNCHANGED outsideSup

\* The same poll with sys.exit in place of os._exit: the SystemExit ends the
\* polling thread only.
MonitorPoll_SysExit ==
  /\ Running
  /\ sup.monitor = "poll"
  /\ sup' = IF sup.parentAlive
              THEN [sup EXCEPT !.monitor = "sleep"]
              ELSE [sup EXCEPT !.monitor = "ended"]
  /\ UNCHANGED outsideSup

\* if not parent.is_running(): os._exit(0)
MonitorPoll ==
  /\ Running
  /\ sup.monitor = "poll"
  /\ sup' = IF sup.parentAlive
              THEN [sup EXCEPT !.monitor = "sleep"]
              ELSE Terminate("os._exit", "parent_gone")
  /\ UNCHANGED outsideSup

\* time.sleep(1) returns
MonitorWake ==
  /\ Running
  /\ sup.monitor = "sleep"
  /\ sup' = [sup EXCEPT !.monitor = "poll"]
  /\ UNCHANGED outsideSup

\* if sys.stdin: ...
WatcherCheck ==
  /\ Running
  /\ sup.watcher = "check"
  /\ sup' = [sup EXCEPT !.watcher = IF sup.stdin = "none" THEN "print_exit"
                                                           ELSE "read"]
  /\ UNCHANGED outsideSup

\* sys.stdin.read() returns (or raises) once the stream is at its end
WatcherRead ==
  /\ Running
  /\ sup.watcher = "read"
  /\ sup.stdin = "eof"
  /\ sup' = [sup EXCEPT !.watcher = "print_exit"]
  /\ UNCHANGED outsideSup

\* print(...); sys.exit(0) in a thread that is not the main thread: the
\* SystemExit unwinds and ends this thread, the process goes on.
WatcherExit ==
  /\ Running
  /\ sup.watcher = "print_exit"
  /\ sup' = [sup EXCEPT !.watcher = "ended"]
  /\ UNCHANGED outsideSup

\* POST /shutdown: start a kill_server thread and answer the request
ShutdownRequest ==
  /\ Running
  /\ sup.main = "serving"
  /\ sup.requests < MaxShutdownRequests
  /\ sup' = [sup EXCEPT !.killers = @ + 1, !.requests = @ + 1]
  /\ UNCHANGED outsideSup

\* kill_server: time.sleep(1); os._exit(0)
KillServer ==
  /\ Running
  /\ sup.killers > 0
  /\ sup' = Terminate("os._exit", "shutdown")
  /\ UNCHANGED outsideSup

\* uvicorn.run returns: the server was told to stop or could not start
UvicornReturns ==
  /\ Running
  /\ sup.main = "serving"
  /\ sup' = [sup EXCEPT !.main = "returned"]
  /\ UNCHANGED outsideSup

\* End of the script: the interpreter joins the non-daemon threads (the
\* kill_server threads), runs the atexit hooks and exits; daemon threads
\* are abandoned.
MainExit ==
  /\ Running
  /\ sup.main = "returned"
  /\ sup.killers = 0
  /\ sup' = Terminate("interpreter", "server_stopped")
  /\ UNCHANGED outsideSup

\* environment: SIGINT or SIGTERM is delivered to the process.  The __main__
\* block (lines 256-292) registers no handler.  Before uvicorn.run, SIGINT
\* is Python's KeyboardInterrupt in the main thread (the script unwinds and
\* the interpreter shuts down) and SIGTERM is the platform's default action.
\* While uvicorn.run serves, the server's own handler asks it to stop and
\* uvicorn.run goes through its shutdown sequence before it returns.
Signals == {"SIGINT", "SIGTERM"}

SignalDelivered ==
  /\ Running
  /\ sup.signal = "none"
  /\ sup.main # "returned"
  /\ \E sig \in Signals :
       sup' = IF sup.main = "serving"
                THEN [sup EXCEPT !.signal = sig, !.main = "returned"]
                ELSE [Terminate(IF sig = "SIGINT" THEN "interpreter"
                                                  ELSE "os_default", "signal")
                        EXCEPT !.signal = sig]
  /\ UNCHANGED outsideSup

\* A helper child process of the backend starts (main.py line 5 prepares
\* the executable for multiprocessing children) or ends by itself.  Nothing
\* in main.py keeps track of the children, and os._exit(0) ends the calling
\* process only: Terminate leaves sup.helper as it is.
HelperStarts ==
  /\ Running
  /\ sup.main = "serving"
  /\ ~sup.helper
  /\ sup' = [sup EXCEPT !.helper = TRUE]
  /\ UNCHANGED outsideSup

HelperEnds ==
  /\ Running
  /\ sup.helper
  /\ sup' = [sup EXCEPT !.helper = FALSE]
  /\ UNCHANGED outsideSup

\* environment: the parent process ends
ParentDies ==
  /\ Running
  /\ sup.parentAlive
  /\ sup' = [sup EXCEPT !.parentAlive = FALSE]
  /\ UNCHANGED outsideSup

\* environment: the write end of the stdin pipe is closed
StdinCloses ==
  /\ Running
  /\ sup.stdin = "open"
  /\ sup' = [sup EXCEPT !.stdin = "eof"]
  /\ UNCHANGED outsideSup

SupInit ==
  /\ \E ps \in BOOLEAN, pa \in BOOLEAN, si \in StdinStates :
       sup = [FreshSupervisor EXCEPT !.parentSupplied = ps,
                                     !.parentAlive = pa, !.stdin = si]
  /\ ResolveIdle
  /\ InstallIdle
  /\ LockIdle
  /\ ProbeIdle
  /\ FinderIdle
  /\ PrepareIdle
  /\ PreloadIdle
  /\ GenerateIdle

SupNext ==
  \/ MainStartup
  \/ StartMonitor
  \/ StartWatcher
  \/ MonitorLookup
  \/ MonitorPoll
  \/ MonitorWake
  \/ WatcherCheck
  \/ WatcherRead
  \/ WatcherExit
  \/ ShutdownRequest
  \/ KillServer
  \/ UvicornReturns
  \/ MainExit
  \/ ParentDies
  \/ StdinCloses
  \/ SignalDelivered
  \/ HelperStarts
  \/ HelperEnds

\* Every thread of the process that can take a step eventually takes one;
\* nothing is assumed about the parent, the pipe or the HTTP clients.
MainThread == MainStartup \/ StartMonitor \/ StartWatcher \/ MainExit

MonitorThread == MonitorLookup \/ MonitorPoll \/ MonitorWake

WatcherThread == WatcherCheck \/ WatcherRead \/ WatcherExit

SupFairness ==
  /\ WF_vars(MainThread)
  /\ WF_vars(MonitorThread)
  /\ WF_vars(WatcherThread)
  /\ WF_vars(KillServer)

SpecSupervisor == SupInit /\ [][SupNext]_vars /\ SupFairness

(***************************************************************************)
(* Capability probes (backend/cuda_setup.py, lines 127-198).               *)
(* The machine says where an nvidia-smi exists: on PATH (shutil.which),    *)
(* in System32, in the NVSMI folder (os.path.isfile for the last two).     *)
(* subprocess.run then either raises or completes with an exit code and    *)
(* captured output.                                                        *)
(***************************************************************************)
ProbeFunctions == {"detect_nvidia_gpu", "detect_cuda_version"}

\* what subprocess.run(..., timeout=10) can raise
RunRaises == {"FileNotFoundError", "TimeoutExpired", "PermissionError"}

\* the exceptions named by the except clause of both probes
ProbeCaught == {"FileNotFoundError", "TimeoutExpired"}

ExitCodes == {"zero", "nonzero"}

\* r.stdout: nothing, white space only, text without a "CUDA Version:"
\* field, text with one
Outputs == {"empty", "blank", "text", "text_with_cuda_version"}

RunCompletes == [rc : ExitCodes, stdout : Outputs]

\* _find_nvidia_smi: PATH first, then System32, then the NVSMI folder
find_nvidia_smi(m) ==
  IF m.onPath THEN "which"
  ELSE IF m.sys32 THEN "sys32"
  ELSE IF m.nvsmiDir THEN "nvsmi"
  ELSE "None"

\* the value a probe returns after a completed run
ProbeValue(fn, r) ==
  IF fn = "detect_nvidia_gpu"
  THEN (IF r.rc = "zero" /\ r.stdout \notin {"empty", "blank"}
        THEN "gpu_name" ELSE "None")
  ELSE (IF r.rc = "zero" /\ r.stdout = "text_with_cuda_version"
        THEN "version_token" ELSE "None")

\* nvsmi = _find_nvidia_smi(); if not nvsmi: return None
ProbeFind ==
  /\ probe.pc = "start"
  /\ LET found == find_nvidia_smi(probe)
     IN probe' = IF found = "None"
                 THEN [probe EXCEPT !.pc = "returned", !.result = "None"]
                 ELSE [probe EXCEPT !.pc = "run", !.nvsmi = found]
  /\ UNCHANGED outsideProbe

\* try: r = subprocess.run(...) ... except (FileNotFoundError, TimeoutExpired)
ProbeRun ==
  /\ probe.pc = "run"
  /\ \/ \E e \in RunRaises :
          probe' = IF e \in ProbeCaught
                   THEN [probe EXCEPT !.pc = "returned", !.run = e,
                                      !.result = "None"]
                   ELSE [probe EXCEPT !.pc = "raised", !.run = e, !.result = e]
     \/ \E r \in RunCompletes :
          probe' = [probe EXCEPT !.pc = "returned", !.run = r.stdout,
                                 !.result = ProbeValue(probe.fn, r)]
  /\ UNCHANGED outsideProbe

ProbeInit ==
  /\ \E f \in ProbeFunctions, w \in BOOLEAN, s \in BOOLEAN, n \in BOOLEAN :
       probe = [FreshProbe EXCEPT !.fn = f, !.onPath = w, !.sys32 = s,
                                  !.nvsmiDir = n, !.pc = "start"]
  /\ ResolveIdle
  /\ InstallIdle
  /\ LockIdle
  /\ SupIdle
  /\ FinderIdle
  /\ PrepareIdle
  /\ PreloadIdle
  /\ GenerateIdle

ProbeNext == ProbeFind \/ ProbeRun

SpecProbe == ProbeInit /\ [][ProbeNext]_vars

(***************************************************************************)
(* Interpreter discovery: one call of _find_matching_system_python on a    *)
(* host.                                                                   *)
(***************************************************************************)
FinderCall ==
  /\ finder.pc = "start"
  /\ finder' = [finder EXCEPT !.pc = "returned",
                              !.result = find_matching_system_python(finder.host)]
  /\ UNCHANGED outsideFinder

FinderInit ==
  /\ \E h \in Hosts : finder = [host |-> h, pc |-> "start", result |-> NoPython]
  /\ ResolveIdle
  /\ InstallIdle
  /\ LockIdle
  /\ SupIdle
  /\ ProbeIdle
  /\ PrepareIdle
  /\ PreloadIdle
  /\ GenerateIdle

FinderNext == FinderCall

SpecFinder == FinderInit /\ [][FinderNext]_vars

(***************************************************************************)
(* Environment preparation (backend/cuda_setup.py, lines 219-274 and       *)
(* 568-659).                                                               *)
(*                                                                         *)
(* A path and the value of an environment variable are strings, written    *)
(* here as sequences of tokens: a directory name, the directory separator  *)
(* or os.pathsep is one token each.  `x in some_string` is Python's        *)
(* substring test, `x in some_list` is list membership.                    *)
(***************************************************************************)
MaxPrepareCalls == 2   \* calls of _prepare_torch_environment in one process

PathSep == ";"         \* os.pathsep

DirSep == "\\"

Sub(dir, name) == dir \o <<DirSep, name>>

\* needle in hay, for strings
Contains(hay, needle) ==
  \E k \in 0..(Len(hay) - Len(needle)) :
    SubSeq(hay, k + 1, k + Len(needle)) = needle

\* item in list
Member(list, item) == \E k \in 1..Len(list) : list[k] = item

\* text.split(os.pathsep)
RECURSIVE SplitPath(_)
SplitPath(text) ==
  IF \A k \in 1..Len(text) : text[k] # PathSep
  THEN <<text>>
  ELSE LET k == CHOOSE i \in 1..Len(text) :
                  text[i] = PathSep /\ \A j \in 1..(i - 1) : text[j] # PathSep
       IN <<SubSeq(text, 1, k - 1)>> \o SplitPath(SubSeq(text, k + 1, Len(text)))

\* os.pathsep.join(parts)
RECURSIVE JoinPath(_)
JoinPath(parts) ==
  IF parts = <<>> THEN <<>>
  ELSE IF Len(parts) = 1 THEN parts[1]
  ELSE parts[1] \o <<PathSep>> \o JoinPath(Tail(parts))

\* the directories of one machine
Base == <<"torch_runtime">>            \* TORCH_CACHE_DIR

TorchDir == Sub(Base, "torch")

TorchLib == Sub(TorchDir, "lib")

TorchBin == Sub(TorchDir, "bin")

NvPkg == Sub(Sub(Base, "nvidia"), "cudnn")

NvPkgLib == Sub(NvPkg, "lib")

NvPkgBin == Sub(NvPkg, "bin")

ExeDir == <<"app">>                    \* Path(sys.executable).parent

TempMei == <<"_MEI">>                  \* a one-file build's extraction directory

CudaDir == <<"CUDA", DirSep, "v12">>   \* CUDA_PATH, also found under the toolkit folder

CudaBin == Sub(CudaDir, "bin")

CudaLib == Sub(Sub(CudaDir, "lib"), "x64")

CudaNvvp == Sub(CudaDir, "libnvvp")

System32 == <<"Windows", DirSep, "System32">>

\* sys._MEIPASS: absent, a temporary directory, or the executable's directory
MeipassKinds == {"none", "temp", "exedir"}

Meipass(m) == IF m.meipass = "temp" THEN TempMei ELSE ExeDir

\* values of PATH at process start
InitialPaths ==
  { <<>>, System32, JoinPath(<<Sub(ExeDir, "bin"), Sub(System32, "Wbem")>>) }

InitialPythonPaths == { <<>>, <<"site">> }

Machines ==
  [platform : {"win32", "other"}, meipass : MeipassKinds, torchTree : BOOLEAN,
   nvidiaPkg : BOOLEAN, cuda : BOOLEAN, path0 : InitialPaths,
   pythonpath0 : InitialPythonPaths]

\* path.is_dir()
IsDir(m, path) ==
  \/ path \in {ExeDir, System32}
  \/ m.meipass = "temp" /\ path = TempMei
  \/ m.torchTree /\ path \in {TorchDir, TorchLib}
  \/ m.nvidiaPkg /\ path \in {NvPkg, NvPkgBin}
  \/ m.cuda /\ path \in {CudaDir, CudaBin}

\* _find_system_cuda_paths: CUDA_PATH, then the versions under the toolkit
\* folder - the same installation is listed by both
find_system_cuda_paths(m) == IF m.cuda THEN <<CudaDir, CudaDir>> ELSE <<>>

\* what one system CUDA installation makes _register_dll_directories look at
CudaYield(cuda_path) ==
  << Sub(cuda_path, "bin"), Sub(Sub(cuda_path, "lib"), "x64"),
     Sub(cuda_path, "libnvvp"),
     Sub(cuda_path, "bin") >>          \* rglob: the subdirectories holding DLLs

RECURSIVE CudaYields(_)
CudaYields(paths) ==
  IF paths = <<>> THEN <<>>
  ELSE CudaYield(Head(paths)) \o CudaYields(Tail(paths))

\* the paths handed to add_dir, in the order of the calls (lines 588-641)
DiscoveryYield(m) ==
  <<TorchLib, TorchBin>>
    \o (IF m.meipass # "none" THEN <<Meipass(m)>> ELSE <<>>)
    \o <<ExeDir>>
    \o (IF IsDir(m, TorchDir) THEN <<TorchLib>> ELSE <<>>)
    \o (IF m.nvidiaPkg THEN <<NvPkg, NvPkgLib, NvPkgBin, NvPkgBin>> ELSE <<>>)
    \o CudaYields(find_system_cuda_paths(m))
    \o <<System32>>

\* variant of add_dir without the `seen` test
add_dir_NoSeen(m, dirs, path) ==
  IF IsDir(m, path) THEN Append(dirs, path) ELSE dirs

\* add_dir: `seen` holds exactly the strings already in `dirs`
add_dir(m, dirs, path) ==
  IF IsDir(m, path) /\ ~Member(dirs, path) THEN Append(dirs, path) ELSE dirs

RECURSIVE CollectDirs(_, _, _)
CollectDirs(m, yield, dirs) ==
  IF yield = <<>> THEN dirs
  ELSE CollectDirs(m, Tail(yield), add_dir(m, dirs, Head(yield)))

\* sys.path.insert(0, x) / path_parts.insert(0, x)
Insert0(list, x) == <<x>> \o list

\* variant of InsertIfMissing that inserts every time
InsertIfMissing_Always(list, x) == Insert0(list, x)

\* if x not in list: list.insert(0, x)
InsertIfMissing(list, x) == IF Member(list, x) THEN list ELSE Insert0(list, x)

\* lines 241-243
SetPythonPath(python_path, cache_str) ==
  IF Contains(python_path, cache_str) THEN python_path
  ELSE IF python_path # <<>> THEN cache_str \o <<PathSep>> \o python_path
  ELSE cache_str

\* lines 247-255
dll_paths_to_add(m) ==
  (IF m.meipass # "none" THEN <<Meipass(m)>> ELSE <<>>)
    \o <<TorchLib, TorchBin, Base>>

RECURSIVE InsertAll(_, _)
InsertAll(parts, paths) ==
  IF paths = <<>> THEN parts
  ELSE InsertAll(InsertIfMissing(parts, Head(paths)), Tail(paths))

\* lines 257-266
SetPath(current_path, m) ==
  JoinPath(InsertAll(IF current_path # <<>> THEN SplitPath(current_path) ELSE <<>>,
                     dll_paths_to_add(m)))

\* if d not in os.environ["PATH"]: os.environ["PATH"] = d + os.pathsep + PATH
PrependIfNotInText(path_text, d) ==
  IF Contains(path_text, d) THEN path_text ELSE d \o <<PathSep>> \o path_text

SearchState == [sysPath |-> penv.sysPath, PYTHONPATH |-> penv.PYTHONPATH,
                PATH |-> penv.PATH]

\* a call begins
PrepStart ==
  /\ prep.pc \in {"idle", "returned"}
  /\ prep.calls < MaxPrepareCalls
  /\ prep' = [prep EXCEPT !.calls = @ + 1, !.pc = "sys_path", !.dirs = <<>>,
                          !.i = 0]
  /\ UNCHANGED <<mach, penv, outsidePrepare>>

\* lines 225-238: the cache goes first on sys.path; elsewhere than on
\* Windows the function returns here
PrepSysPath ==
  /\ prep.pc = "sys_path"
  /\ penv' = [penv EXCEPT !.sysPath = InsertIfMissing(@, Base)]
  /\ prep' = IF mach.platform # "win32"
             THEN [prep EXCEPT !.pc = "returned",
                               !.after = Append(@, SearchState')]
             ELSE [prep EXCEPT !.pc = "python_path"]
  /\ UNCHANGED <<mach, outsidePrepare>>

\* lines 241-243
PrepPythonPath ==
  /\ prep.pc = "python_path"
  /\ penv' = [penv EXCEPT !.PYTHONPATH = SetPythonPath(@, Base)]
  /\ prep' = [prep EXCEPT !.pc = "path"]
  /\ UNCHANGED <<mach, outsidePrepare>>

\* lines 247-267
PrepPath ==
  /\ prep.pc = "path"
  /\ penv' = [penv EXCEPT !.PATH = SetPath(@, mach)]
  /\ prep' = [prep EXCEPT !.pc = "collect"]
  /\ UNCHANGED <<mach, outsidePrepare>>

\* _register_dll_directories, lines 577-641: build `dirs`
RegCollect ==
  /\ prep.pc = "collect"
  /\ prep' = [prep EXCEPT !.pc = "register", !.i = 1,
                          !.dirs = CollectDirs(mach, DiscoveryYield(mach), <<>>)]
  /\ UNCHANGED <<mach, penv, outsidePrepare>>

\* lines 645-656, one round of the loop: os.add_dll_directory(d) may raise
\* OSError or AttributeError, which is logged; then the PATH fallback
RegisterOne ==
  /\ prep.pc = "register"
  /\ prep.i <= Len(prep.dirs)
  /\ \E ok \in BOOLEAN :
       penv' = [penv EXCEPT !.dllDirs = Append(@, prep.dirs[prep.i]),
                            !.regFailed = @ \/ ~ok,
                            !.PATH = PrependIfNotInText(@, prep.dirs[prep.i])]
  /\ prep' = [prep EXCEPT !.i = @ + 1]
  /\ UNCHANGED <<mach, outsidePrepare>>

\* the loop is over
RegisterDone ==
  /\ prep.pc = "register"
  /\ prep.i > Len(prep.dirs)
  /\ prep' = [prep EXCEPT !.pc = "preload"]
  /\ UNCHANGED <<mach, penv, outsidePrepare>>

\* _preload_torch_dlls, as far as the search state goes: with torch/lib on
\* disk, _ensure_python_dll_accessible puts _MEIPASS into PATH (line 373)
PrepPreload ==
  /\ prep.pc = "preload"
  /\ penv' = IF IsDir(mach, TorchLib) /\ mach.meipass # "none"
             THEN [penv EXCEPT !.PATH = PrependIfNotInText(@, Meipass(mach))]
             ELSE penv
  /\ prep' = [prep EXCEPT !.pc = "returned", !.after = Append(@, SearchState')]
  /\ UNCHANGED <<mach, outsidePrepare>>

PrepareInit ==
  /\ mach \in Machines
  /\ penv = [FreshSearchState EXCEPT !.PATH = mach.path0,
                                     !.PYTHONPATH = mach.pythonpath0]
  /\ prep = FreshPrepare
  /\ ResolveIdle
  /\ InstallIdle
  /\ LockIdle
  /\ SupIdle
  /\ ProbeIdle
  /\ FinderIdle
  /\ PreloadIdle
  /\ GenerateIdle

PrepareNext ==
  \/ PrepStart \/ PrepSysPath \/ PrepPythonPath \/ PrepPath
  \/ RegCollect \/ RegisterOne \/ RegisterDone \/ PrepPreload

SpecPrepare == PrepareInit /\ [][PrepareNext]_vars

(***************************************************************************)
(* Library preloading (backend/cuda_setup.py, lines 277-341), on Windows   *)
(* with torch/lib present.  File names and prefixes are strings, written   *)
(* as sequences of characters, because the load order depends on their     *)
(* lower-cased spelling.                                                   *)
(***************************************************************************)
UpperCase == <<"A", "B", "C", "D", "E", "F", "G", "H", "I", "J", "K", "L", "M", "N", "O", "P", "Q", "R", "S", "T", "U", "V", "W", "X", "Y", "Z">>

LowerCase == <<"a", "b", "c", "d", "e", "f", "g", "h", "i", "j", "k", "l", "m", "n", "o", "p", "q", "r", "s", "t", "u", "v", "w", "x", "y", "z">>

\* the characters in code point order
CodeOrder ==
  <<".">> \o <<"0", "1", "2", "3", "4", "5", "6", "7", "8", "9">> \o UpperCase \o <<"_">> \o LowerCase

Code(c) == CHOOSE k \in 1..Len(CodeOrder) : CodeOrder[k] = c

\* str.lower()
LowerChar(c) ==
  IF \E k \in 1..Len(UpperCase) : UpperCase[k] = c
  THEN LowerCase[CHOOSE k \in 1..Len(UpperCase) : UpperCase[k] = c]
  ELSE c

Lower(name) == [k \in 1..Len(name) |-> LowerChar(name[k])]

\* a < b for strings
StrLess(a, b) ==
  \/ \E k \in 1..Len(b) :
       /\ k <= Len(a)
       /\ \A j \in 1..(k - 1) : a[j] = b[j]
       /\ Code(a[k]) < Code(b[k])
  \/ Len(a) < Len(b) /\ \A j \in 1..Len(a) : a[j] = b[j]

\* name.startswith(prefix)
StartsWith(name, prefix) ==
  Len(prefix) <= Len(name) /\ SubSeq(name, 1, Len(prefix)) = prefix

\* priority_prefixes, lines 299-303: CUDA math, communication and support
\* libraries
MathCommPrefixes ==
  << <<"c", "u", "d", "a", "r", "t", "6", "4">>,
     <<"c", "u", "b", "l", "a", "s", "6", "4">>,
     <<"c", "u", "b", "l", "a", "s", "L", "t", "6", "4">>,
     <<"c", "u", "d", "n", "n", "6", "4">>,
     <<"c", "u", "d", "n", "n", "_">>,
     <<"c", "u", "f", "f", "t", "6", "4">>,
     <<"c", "u", "f", "f", "t", "w", "6", "4">>,
     <<"c", "u", "r", "a", "n", "d", "6", "4">>,
     <<"c", "u", "s", "o", "l", "v", "e", "r", "6", "4">>,
     <<"c", "u", "s", "o", "l", "v", "e", "r", "M", "g", "6", "4">>,
     <<"c", "u", "s", "p", "a", "r", "s", "e", "6", "4">>,
     <<"n", "v", "r", "t", "c">>,
     <<"n", "v", "J", "i", "t", "L", "i", "n", "k">>,
     <<"n", "v", "T", "o", "o", "l", "s", "E", "x", "t">>,
     <<"n", "v", "p", "e", "r", "f">>,
     <<"c", "u", "p", "t", "i", "6", "4">>,
     <<"z", "l", "i", "b", "w", "a", "p", "i">>,
     <<"l", "i", "b", "i", "o", "m", "p", "5", "m", "d">>,
     <<"l", "i", "b", "i", "o", "m", "p", "s", "t", "u", "b", "s", "5", "m", "d">>,
     <<"c", "a", "f", "f", "e", "2">>,
     <<"s", "h", "m">> >>

\* priority_prefixes, lines 304-305: the core runtime libraries
CoreRuntimePrefixes ==
  << <<"c", "1", "0", ".", "d", "l", "l">>,
     <<"t", "o", "r", "c", "h", "_", "g", "l", "o", "b", "a", "l", "_", "d", "e", "p", "s">>,
     <<"t", "o", "r", "c", "h", "_", "c", "p", "u">>,
     <<"t", "o", "r", "c", "h", ".", "d", "l", "l">>,
     <<"c", "1", "0", "_", "c", "u", "d", "a">>,
     <<"t", "o", "r", "c", "h", "_", "c", "u", "d", "a">>,
     <<"u", "v", ".", "d", "l", "l">> >>

priority_prefixes == MathCommPrefixes \o CoreRuntimePrefixes

BridgeName == <<"t", "o", "r", "c", "h", "_", "p", "y", "t", "h", "o", "n", ".", "d", "l", "l">>

\* file names that can be found in torch/lib
BridgeSpellings == {BridgeName, <<"T", "o", "r", "c", "h", "_", "P", "y", "t", "h", "o", "n", ".", "d", "l", "l">>}

OtherLibraries ==
  { <<"a", "s", "m", "j", "i", "t", ".", "d", "l", "l">>,
    <<"c", "1", "0", ".", "d", "l", "l">>,
    <<"c", "u", "d", "a", "r", "t", "6", "4", "_", "1", "2", ".", "d", "l", "l">>,
    <<"t", "o", "r", "c", "h", "_", "c", "p", "u", ".", "d", "l", "l">>,
    <<"u", "v", ".", "d", "l", "l">>,
    <<"z", "s", "t", "d", ".", "d", "l", "l">> }

\* the content of torch/lib: at most one spelling of the bridge library,
\* the file system being case-insensitive
LibContents ==
  { others \cup bridge : others \in SUBSET OtherLibraries,
                         bridge \in {{}} \cup {{b} : b \in BridgeSpellings} }

\* sorted(torch_lib.glob("*.dll"), key=lambda p: p.name.lower())
RECURSIVE SortedByLowerName(_)
SortedByLowerName(files) ==
  IF files = {} THEN <<>>
  ELSE LET first == CHOOSE f \in files :
                      \A g \in files \ {f} : StrLess(Lower(f), Lower(g))
       IN <<first>> \o SortedByLowerName(files \ {first})

HasPriorityPrefix(name_lower) ==
  \E k \in 1..Len(priority_prefixes) :
    StartsWith(name_lower, Lower(priority_prefixes[k]))

IsBridge(f) == Lower(f) = BridgeName

\* the elements of seq that satisfy Test, in the order of seq
SelectInOrder(seq, Test(_)) ==
  LET F[k \in 0..Len(seq)] ==
        IF k = 0 THEN <<>>
        ELSE IF Test(seq[k]) THEN Append(F[k - 1], seq[k]) ELSE F[k - 1]
  IN F[Len(seq)]

\* variant of LoadOrder that treats the bridge library like any other file
LoadOrder_BridgeInPlace(files) ==
  LET all_dlls == SortedByLowerName(files)
      InPriority(f) == HasPriorityPrefix(Lower(f))
      InRemaining(f) == ~HasPriorityPrefix(Lower(f))
  IN SelectInOrder(all_dlls, InPriority) \o SelectInOrder(all_dlls, InRemaining)

\* lines 308-326: priority + remaining (+ torch_python)
LoadOrder(files) ==
  LET all_dlls == SortedByLowerName(files)
      InPriority(f) == ~IsBridge(f) /\ HasPriorityPrefix(Lower(f))
      InRemaining(f) == ~IsBridge(f) /\ ~HasPriorityPrefix(Lower(f))
  IN SelectInOrder(all_dlls, InPriority)
       \o SelectInOrder(all_dlls, InRemaining)
       \o SelectInOrder(all_dlls, IsBridge)

\* lines 308-326
PreloadPlan ==
  /\ pre.pc = "start"
  /\ pre' = [pre EXCEPT !.pc = "load", !.i = 1, !.load_order = LoadOrder(pre.files)]
  /\ UNCHANGED outsidePreload

\* variant of PreloadOne that gives up at the first failure
PreloadOne_StopOnFailure ==
  /\ pre.pc = "load"
  /\ pre.i <= Len(pre.load_order)
  /\ \E ok \in BOOLEAN :
       pre' = [pre EXCEPT !.attempts = Append(@, pre.load_order[pre.i]),
                          !.failed = @ \/ ~ok,
                          !.i = @ + 1,
                          !.pc = IF ok THEN "load" ELSE "returned"]
  /\ UNCHANGED outsidePreload

\* lines 332-339, one round: ctypes.CDLL(...) loads or raises; the
\* exception is counted and logged
PreloadOne ==
  /\ pre.pc = "load"
  /\ pre.i <= Len(pre.load_order)
  /\ \E ok \in BOOLEAN :
       pre' = [pre EXCEPT !.attempts = Append(@, pre.load_order[pre.i]),
                          !.failed = @ \/ ~ok,
                          !.i = @ + 1]
  /\ UNCHANGED outsidePreload

\* line 341: the loop is over, the function returns
PreloadDone ==
  /\ pre.pc = "load"
  /\ pre.i > Len(pre.load_order)
  /\ pre' = [pre EXCEPT !.pc = "returned"]
  /\ UNCHANGED outsidePreload

PreloadInit ==
  /\ \E fs \in LibContents : pre = [FreshPreload EXCEPT !.files = fs, !.pc = "start"]
  /\ ResolveIdle
  /\ InstallIdle
  /\ LockIdle
  /\ SupIdle
  /\ ProbeIdle
  /\ FinderIdle
  /\ PrepareIdle
  /\ GenerateIdle

PreloadNext == PreloadPlan \/ PreloadOne \/ PreloadDone

SpecPreload == PreloadInit /\ [][PreloadNext]_vars

(***************************************************************************)
(* Audio generation (backend/main.py, generate; backend/models).           *)
(* The handler is an `async def` without an await: the event loop runs one *)
(* request to its end before it takes the next, so requests do not         *)
(* interleave.  A model object is its two fields: pipe (not None) and      *)
(* is_loaded.                                                              *)
(***************************************************************************)
MaxGenerateRequests == 3

\* "loop" in req_type -> Stable Audio, else ACE-Step (lines 180, 212)
RequestTypes == {"loop", "song"}

OwnModel(t) == IF t = "loop" THEN "stable_audio" ELSE "acestep"

OtherModel(t) == IF t = "loop" THEN "acestep" ELSE "stable_audio"

\* ACEStepModel.load (acestep.py 18-48): a failure leaves pipe as it was
LoadOutcomes(name) ==
  IF name = "acestep" THEN {"ok", "raise"}
  ELSE {"ok", "raise_device", "raise_no_pipe", "raise_with_pipe"}

acestep_load(m, out) ==
  IF m.is_loaded /\ m.pipe THEN m
  ELSE IF out = "ok" THEN [pipe |-> TRUE, is_loaded |-> TRUE]
  ELSE [m EXCEPT !.is_loaded = FALSE]

\* StableAudioOpenModel.load (stable_audio.py 15-52): the device check
\* raises before the try; from_pretrained failing leaves pipe as it was;
\* pipe.to(device) or enable_attention_slicing failing leaves pipe set
stable_audio_load(m, out) ==
  IF m.is_loaded /\ m.pipe THEN m
  ELSE IF out = "ok" THEN [pipe |-> TRUE, is_loaded |-> TRUE]
  ELSE IF out = "raise_device" THEN m
  ELSE IF out = "raise_with_pipe" THEN [pipe |-> TRUE, is_loaded |-> FALSE]
  ELSE [m EXCEPT !.is_loaded = FALSE]

ModelLoad(name, m, out) ==
  IF name = "acestep" THEN acestep_load(m, out) ELSE stable_audio_load(m, out)

\* ACEStepModel.unload (acestep.py 50-61): is_loaded is cleared in any case
acestep_unload(m) == [pipe |-> FALSE, is_loaded |-> FALSE]

\* StableAudioOpenModel.unload (stable_audio.py 54-65): is_loaded is
\* cleared only when there is a pipe
stable_audio_unload(m) ==
  IF m.pipe THEN [pipe |-> FALSE, is_loaded |-> FALSE] ELSE m

\* an exception inside unload (cleanup_memory, del of a component) leaves
\* the object as it was
ModelUnload(name, m, ok) ==
  IF ~ok THEN m
  ELSE IF name = "acestep" THEN acestep_unload(m) ELSE stable_audio_unload(m)

\* lines 252-254: except Exception -> HTTPException(500); the handler ends
RespondError(g) == [g EXCEPT !.pc = "idle", !.response = "error"]

\* lines 246-250
RespondSuccess(g) == [g EXCEPT !.pc = "idle", !.response = "success"]

\* a POST /generate request arrives
GenRequest ==
  /\ gen.pc = "idle"
  /\ gen.requests < MaxGenerateRequests
  /\ \E t \in RequestTypes :
       gen' = [gen EXCEPT !.pc = "switch", !.type = t, !.requests = @ + 1,
                          !.switched = FALSE, !.produced = FALSE,
                          !.response = "none"]
  /\ UNCHANGED outsideGenerate

\* variant of GenSwitch that leaves the other model as it is
GenSwitch_KeepOther ==
  /\ gen.pc = "switch"
  /\ gen' = [gen EXCEPT !.pc = "load"]
  /\ UNCHANGED outsideGenerate

\* lines 189-190 / 220-221: if the other model is loaded, unload it
GenSwitch ==
  /\ gen.pc = "switch"
  /\ LET other == OtherModel(gen.type)
     IN IF gen[other].is_loaded
        THEN \E ok \in BOOLEAN :
               LET g == [gen EXCEPT ![other] = ModelUnload(other, @, ok)]
               IN gen' = IF ok THEN [g EXCEPT !.pc = "load", !.switched = TRUE]
                         ELSE RespondError(g)
        ELSE gen' = [gen EXCEPT !.pc = "load"]
  /\ UNCHANGED outsideGenerate

\* model.generate, first statement (acestep.py 88-89, stable_audio.py 79-80)
GenLoad ==
  /\ gen.pc = "load"
  /\ LET own == OwnModel(gen.type)
     IN \E out \in LoadOutcomes(own) :
          LET g == [gen EXCEPT ![own] = ModelLoad(own, @, out)]
          IN gen' = IF g[own].is_loaded /\ g[own].pipe
                    THEN [g EXCEPT !.pc = "run"]
                    ELSE RespondError(g)
  /\ UNCHANGED outsideGenerate

\* the pipeline call and the collection of its results: audio, no audio
\* (ACE-Step raises RuntimeError, Stable Audio returns an empty list) or an
\* exception
RunOutcomesOfModel == {"audio", "empty", "raise"}

GenRun ==
  /\ gen.pc = "run"
  /\ \E out \in RunOutcomesOfModel :
       gen' = IF out = "audio"
              THEN [gen EXCEPT !.pc = "post", !.produced = TRUE]
              ELSE IF out = "empty" /\ gen.type = "loop"
              THEN [gen EXCEPT !.pc = "unload"]
              ELSE RespondError(gen)
  /\ UNCHANGED outsideGenerate

\* lines 199-207 / 232-238: normalize, fade, file name, save_wav for each
\* result; an exception goes to the handler's except clause
GenPost ==
  /\ gen.pc = "post"
  /\ \E ok \in BOOLEAN :
       gen' = IF ok THEN [gen EXCEPT !.pc = "unload"] ELSE RespondError(gen)
  /\ UNCHANGED outsideGenerate

\* lines 210 / 241: unload the model that generated; lines 243-250: the
\* response
GenUnload ==
  /\ gen.pc = "unload"
  /\ LET own == OwnModel(gen.type)
     IN \E ok \in BOOLEAN :
          LET g == [gen EXCEPT ![own] = ModelUnload(own, @, ok)]
          IN gen' = IF ok /\ gen.produced THEN RespondSuccess(g)
                    ELSE RespondError(g)
  /\ UNCHANGED outsideGenerate

GenerateInit ==
  /\ gen = FreshGenerate
  /\ ResolveIdle
  /\ InstallIdle
  /\ LockIdle
  /\ SupIdle
  /\ ProbeIdle
  /\ FinderIdle
  /\ PrepareIdle
  /\ PreloadIdle

GenerateNext ==
  GenRequest \/ GenSwitch \/ GenLoad \/ GenRun \/ GenPost \/ GenUnload

SpecGenerate == GenerateInit /\ [][GenerateNext]_vars

(***************************************************************************)
(* Properties of the installer (SpecInstall)                               *)
(***************************************************************************)
StrategyEvents == {"a", "b", "c"}

SuccessResults == {"returned_0", "SystemExit_0", "rc_0"}

Happened(ev) == \E k \in 1..Len(proc.events) : proc.events[k].ev = ev

SomeStrategySucceeded ==
  \E k \in 1..Len(proc.events) :
    proc.events[k].ev \in StrategyEvents /\ proc.events[k].res \in SuccessResults

(***************************************************************************)
(* C2.  install_torch() called on a valid cache (directory, marker and     *)
(* torch subdirectory present) returns at once: the step from its entry    *)
(* check runs no probe and no acquisition strategy and leaves the cache    *)
(* directory and its marker files as they are.                             *)
(***************************************************************************)
C2_ValidCacheIsNoOp ==
  [][ (/\ proc.pc = "it_check"
       /\ disk.cacheDir /\ disk.setupComplete /\ disk.tree = "full"
       /\ proc'.pc # "killed")
      => (/\ proc'.pc = "done"
          /\ proc'.result = "already_installed"
          /\ proc'.events = proc.events
          /\ disk' = disk) ]_vars

\* a second run in install mode that found the cache complete
C2_Witness ==
  /\ proc.runs = 2
  /\ proc.entry = "install"
  /\ proc.pc = "done"
  /\ proc.result = "already_installed"
  /\ proc.events = <<>>
  /\ disk.setupComplete

(***************************************************************************)
(* C3.  In every reachable state, if the completion marker is present then *)
(* the cache tree is fully populated and the runtime in it is importable.  *)
(***************************************************************************)
C3_MarkerImpliesImportable ==
  disk.setupComplete => (disk.tree = "full" /\ disk.loadable)

AcquiringPcs ==
  {"in_s1", "in_s2", "in_s2_run", "in_s3", "in_write_variant",
   "in_write_marker", "it_prepare", "it_import"}

C5_FailsOnlyAfterLastStrategy ==
  (/\ proc.pc = "raised"
   /\ \E ev \in StrategyEvents : Happened(ev)
   /\ ~SomeStrategySucceeded)
    => Happened("c")

(***************************************************************************)
(* C6.  The variant-tag file and the completion marker are written if and  *)
(* only if some acquisition strategy succeeded in that call; when all      *)
(* strategies are exhausted _install_torch raises the acquisition failure, *)
(* carrying the resolved index URL, and has written neither file.          *)
(***************************************************************************)
Exhausted ==
  /\ proc.pc = "raised"
  /\ proc.events # <<>>
  /\ proc.events[Len(proc.events)].ev = "c"
  /\ proc.events[Len(proc.events)].res \notin SuccessResults

RaisedByInstall == IF proc.inline THEN proc.error.cause ELSE proc.error.kind

C6_MarkersIffStrategySucceeded ==
  /\ (Happened("write_variant") \/ Happened("write_marker"))
       => SomeStrategySucceeded
  /\ (SomeStrategySucceeded /\ proc.pc \in {"done", "raised"})
       => (Happened("write_variant") /\ Happened("write_marker")
           /\ disk.setupComplete /\ disk.variantFile = proc.variant.variant)
  /\ Exhausted
       => (/\ RaisedByInstall = "AcquisitionFailed"
           /\ proc.error.url = proc.variant.url
           /\ proc.error.url # ""
           /\ ~Happened("write_variant") /\ ~Happened("write_marker")
           /\ ~disk.setupComplete /\ disk.variantFile = "absent")

\* every eligible strategy was attempted and failed
C6_Witness ==
  /\ Exhausted
  /\ Happened("a") /\ Happened("b")
  /\ proc.error.kind = "AcquisitionFailed"
  /\ disk.cacheDir /\ ~disk.setupComplete

(***************************************************************************)
(* C7.  Whenever strategy (b) runs the acquisition command, the            *)
(* interpreter that executes pip has the major.minor version of the        *)
(* running binary, for every candidate kind, the py launcher included.     *)
(***************************************************************************)
C7_StrategyBRunsMatchingVersion ==
  (\/ proc.pc = "in_s2_run"
   \/ \E k \in 1..Len(proc.events) :
        proc.events[k].ev = "b" /\ proc.events[k].res \in RunOutcomes)
    => proc.py.execVer = Need

(***************************************************************************)
(* Properties of the lock (SpecLock)                                       *)
(***************************************************************************)
Proceeded == {i \in Instances :
                inst[i].pc \in {"running", "cl_exists", "cl_read", "cl_remove"}}

(***************************************************************************)
(* C8.  In any interleaving of the lock-file steps of any number of        *)
(* instances, at most one instance has proceeded past                      *)
(* _ensure_single_instance while another is still running.                 *)
(***************************************************************************)
C8_AtMostOneOwner == Cardinality(Proceeded) <= 1

(***************************************************************************)
(* C9.  If the lock file names the PID of a running process when a new     *)
(* instance checks it, the new instance exits with status 0 and the lock   *)
(* file is unchanged, on every platform.                                   *)
(***************************************************************************)
C9_LiveLockMeansExit ==
  [][ \A i \in Instances :
        (/\ inst[i].pc = "open_process"
         /\ inst[i].old_pid \in LivePids
         /\ inst'[i].pc # "open_process")
        => (/\ inst'[i].pc = "exited"
            /\ inst'[i].exitStatus = 0
            /\ lockFile' = lockFile) ]_vars

NamesPid(f, i) == f.exists /\ IsDecimal(f.text) /\ DecimalValue(f.text) = i

C11_RemovesOnlyOwnLock ==
  [][ \A i \in Instances :
        (/\ inst[i].pc \in {"cl_exists", "cl_read", "cl_remove"}
         /\ inst'[i].pc # inst[i].pc
         /\ ~NamesPid(lockFile, i))
        => lockFile' = lockFile ]_vars

(***************************************************************************)
(* C12.  After the standard input stream has reached end-of-stream and the *)
(* stdin watcher has acted on it, the backend process is terminated, as it *)
(* is after the parent watchdog has seen the parent gone - even while the  *)
(* serving thread is still running.                                        *)
(***************************************************************************)
C12_StdinEofTerminates ==
  (sup.stdin = "eof" /\ sup.watcher = "ended") => sup.state = "terminated"

(***************************************************************************)
(* C13.  When a parent PID is supplied, once the parent is no longer       *)
(* running (or cannot be looked up) the backend process eventually         *)
(* terminates, whatever the serving thread is doing.                       *)
(***************************************************************************)
C13_ParentGoneTerminates ==
  (sup.parentSupplied /\ ~sup.parentAlive) ~> (sup.state = "terminated")

C13_Witness ==
  /\ sup.parentSupplied
  /\ ~sup.parentAlive
  /\ sup.main = "serving"
  /\ sup.state = "terminated"
  /\ sup.exitVia = "os._exit"
  /\ sup.cause = "parent_gone"

(***************************************************************************)
(* C14.  load_torch() returns normally only when the runtime is            *)
(* importable: a finished launch has torch in sys.modules and its last     *)
(* import check succeeded.  A launch that fails - the check after the      *)
(* environment preparation failed, or the inline install raised - ends     *)
(* with one error that references the log file, never with a result.       *)
(***************************************************************************)
LastEvent == proc.events[Len(proc.events)]

C14_LoadReturnsOnlyImportable ==
  proc.entry = "load" =>
    /\ proc.pc = "done" =>
         /\ proc.importedTorch # "none"
         /\ LastEvent.ev = "import" /\ LastEvent.res # "failed"
         /\ proc.error = NoError
    /\ (proc.pc \in {"lt_prepare", "lt_import"} \/ proc.result = "ready") =>
         (proc.inline \/ (disk.cacheDir /\ disk.setupComplete /\ disk.tree = "full"))
    /\ proc.pc = "raised" =>
         /\ proc.error.kind \in {"SetupFailed", "CacheUnloadable"}
         /\ proc.error.logref
         /\ proc.result = ""

C14_Witness ==
  /\ proc.entry = "load"
  /\ proc.pc = "raised"
  /\ proc.error.kind = "SetupFailed"
  /\ proc.error.logref
  /\ Happened("prepare")

(***************************************************************************)
(* C15.  When the runtime is not importable at launch, load_torch() calls  *)
(* the installer if and only if the cache is invalid: with a valid cache   *)
(* it goes to the environment preparation and the launch runs no probe and *)
(* no acquisition; with an invalid cache it enters install_torch, whose    *)
(* steps come before load_torch's own preparation.                         *)
(***************************************************************************)
LaunchOnlyEvents == {"import", "prepare"}

C16_ReadyAtOnceWithCuda ==
  [][ (/\ proc.pc = "lt_importable"
       /\ build.venvTorch = "cuda"
       /\ proc'.pc \notin {"lt_importable", "killed"})
      => /\ proc'.pc = "done"
         /\ proc'.result = "ready_cuda"
         /\ proc'.events = <<[ev |-> "import", res |-> "cuda"]>>
         /\ ~proc'.sysPathHasCache
         /\ ~proc'.inline
         /\ disk' = disk ]_vars

C16_Witness ==
  /\ proc.entry = "load"
  /\ proc.pc = "done"
  /\ proc.result = "ready_cuda"
  /\ build.venvTorch = "cuda"

(***************************************************************************)
(* C17.  When the runtime is importable but lacks acceleration: in a       *)
(* non-frozen process load_torch() warns and returns without any install   *)
(* or cache change; in a frozen process it does not return at that point   *)
(* but falls through to installation, so a frozen launch that got past     *)
(* that point has entered install_torch.                                   *)
(***************************************************************************)
CpuOnlyAtLaunch ==
  /\ proc.entry = "load"
  /\ proc.events # <<>>
  /\ proc.events[1] = [ev |-> "import", res |-> "cpu"]

C17_FrozenFallsThroughToInstall ==
  CpuOnlyAtLaunch =>
    IF build.frozen
    THEN /\ proc.result # "warned_cpu_only"
         /\ proc.pc \in {"lt_prepare", "lt_import", "done", "raised"} => proc.inline
    ELSE /\ proc.pc = "done" /\ proc.result = "warned_cpu_only"
         /\ Len(proc.events) = 1 /\ ~proc.inline

(***************************************************************************)
(* C17, amended.  Importable but CPU-only: a non-frozen process warns and  *)
(* returns in that step, cache untouched; a frozen process does not return *)
(* there but goes on to the cache test, which enters install_torch only    *)
(* when the cache is invalid and otherwise goes straight to the            *)
(* environment preparation.                                                *)
(***************************************************************************)
C17_CpuOnlyWarnsOrFallsThroughToCache ==
  [][ /\ (/\ proc.pc = "lt_importable"
          /\ build.venvTorch = "cpu"
          /\ proc'.pc \notin {"lt_importable", "killed"})
        => /\ disk' = disk
           /\ ~proc'.inline
           /\ proc'.events = <<[ev |-> "import", res |-> "cpu"]>>
           /\ IF build.frozen
              THEN proc'.pc = "lt_cache" /\ proc'.result = ""
              ELSE proc'.pc = "done" /\ proc'.result = "warned_cpu_only"
      /\ (/\ proc.pc = "lt_cache"
          /\ proc.importedTorch = "cpu"
          /\ proc'.pc \notin {"lt_cache", "killed"})
        => IF disk.cacheDir /\ disk.setupComplete /\ disk.tree = "full"
           THEN proc'.pc = "lt_prepare" /\ ~proc'.inline
           ELSE proc'.pc = "it_check" /\ proc'.inline ]_vars

C17_Witness ==
  /\ CpuOnlyAtLaunch
  /\ build.frozen
  /\ ~proc.inline
  /\ proc.pc = "done"
  /\ proc.result = "ready"

(***************************************************************************)
(* C18.  If the capability probe reports no accelerator, install_torch()   *)
(* fails in that step with the HardwareAbsent error: no acquisition        *)
(* strategy has been attempted and the cache directory has not been        *)
(* created, deleted or modified.                                           *)
(***************************************************************************)
BeforeAcquisitionEvents == {"import", "probe_gpu", "probe_cuda"}

NothingAcquiredYet ==
  \A k \in 1..Len(proc.events) : proc.events[k].ev \in BeforeAcquisitionEvents

C18_NoAcceleratorFailsFirst ==
  [][ (/\ proc.pc = "it_probe_gpu"
       /\ proc'.pc # "killed"
       /\ proc'.events # proc.events
       /\ LastEvent' = [ev |-> "probe_gpu", res |-> "None"])
      => /\ proc'.pc = "raised"
         /\ RaisedByInstall' = "HardwareAbsent"
         /\ proc'.result = ""
         /\ NothingAcquiredYet'
         /\ disk' = disk ]_vars

C18_Witness ==
  /\ proc.entry = "install"
  /\ proc.pc = "raised"
  /\ proc.error.kind = "HardwareAbsent"
  /\ LastEvent = [ev |-> "probe_gpu", res |-> "None"]

(***************************************************************************)
(* C19.  If an accelerator is present but the driver version is below the  *)
(* oldest table entry's minimum, install_torch() fails with the            *)
(* DriverIncompatible error, attempts no acquisition strategy and leaves   *)
(* the cache directory and marker files unchanged.                         *)
(***************************************************************************)
OldestMinimum == TORCH_CUDA_VARIANTS[Len(TORCH_CUDA_VARIANTS)].min_ver

BelowOldest(s) ==
  DenotesVersion(s) /\ ~VersionLE(OldestMinimum, DenotedVersion(s))

C19_OldDriverFailsUntouched ==
  [][ (/\ proc.pc = "it_resolve"
       /\ BelowOldest(proc.cuda_version)
       /\ proc'.pc \notin {"it_resolve", "killed"})
      => /\ proc'.pc = "raised"
         /\ RaisedByInstall' = "DriverIncompatible"
         /\ proc'.result = ""
         /\ NothingAcquiredYet'
         /\ disk' = disk ]_vars

C19_Witness ==
  /\ proc.entry = "install"
  /\ proc.pc = "raised"
  /\ proc.error.kind = "DriverIncompatible"
  /\ BelowOldest(proc.cuda_version)
  /\ Happened("probe_gpu")

(***************************************************************************)
(* C20.  In every run of install_torch() that reaches acquisition, a       *)
(* successful strategy is followed by the marker writes, then the          *)
(* environment preparation, then the importability check, in that order;   *)
(* if the check fails the call raises VerificationFailed and reports no     *)
(* success, and success is reported only after a check that passed.        *)
(***************************************************************************)
AfterSuccessOrder == <<"write_variant", "write_marker", "prepare", "import">>

C20_AcquirePrepareVerify ==
  /\ \A s \in 1..Len(proc.events) :
       (proc.events[s].ev \in StrategyEvents
          /\ proc.events[s].res \in SuccessResults)
       => /\ \A j \in 1..Len(AfterSuccessOrder) :
               s + j <= Len(proc.events)
                 => proc.events[s + j].ev = AfterSuccessOrder[j]
          /\ (/\ s + Len(AfterSuccessOrder) <= Len(proc.events)
              /\ proc.events[s + Len(AfterSuccessOrder)].res = "failed")
             => /\ proc.pc = "raised"
                /\ RaisedByInstall = "VerificationFailed"
                /\ proc.result = ""
  /\ proc.result = "installed"
       => /\ SomeStrategySucceeded
          /\ LastEvent.ev = "import" /\ LastEvent.res # "failed"
          /\ proc.events[Len(proc.events) - 1].ev = "prepare"

C20_Witness ==
  /\ proc.entry = "install"
  /\ proc.pc = "raised"
  /\ proc.error.kind = "VerificationFailed"
  /\ SomeStrategySucceeded
  /\ LastEvent = [ev |-> "import", res |-> "failed"]

(***************************************************************************)
(* C22.  For every version token the probe can extract (any non-empty      *)
(* string of digits and dots, such as "12.", ".5" or ".."), the            *)
(* probe-and-resolve path ends in an absent or unsupported result:         *)
(* install_torch() never ends by a parse exception.                        *)
(***************************************************************************)
C22_NoParseExceptionOutOfInstall ==
  proc.pc = "raised" => RaisedByInstall # "ValueError"

(***************************************************************************)
(* C29.  Resolution is monotonic in the driver version: when the resolved  *)
(* version V2 is at least a version V1 for which a variant is returned,    *)
(* then a variant is returned for V2 too, and its minimum version is not   *)
(* below that of the variant returned for V1.  V1 ranges over the table's  *)
(* minimum versions written "major.minor".                                 *)
(***************************************************************************)
VersionText(v) == PidText(v[1]) \o <<Dot>> \o PidText(v[2])

TableVersionStrings ==
  {VersionText(TORCH_CUDA_VARIANTS[i].min_ver) : i \in 1..Len(TORCH_CUDA_VARIANTS)}

MinVerOf(r) ==
  LET k == CHOOSE i \in 1..Len(TORCH_CUDA_VARIANTS) :
                  TORCH_CUDA_VARIANTS[i].variant = r.variant
  IN TORCH_CUDA_VARIANTS[k].min_ver

C29_ResolveMonotonic ==
  (resolvePc # "start" /\ DenotesVersion(cuda_version_str)) =>
    \A v1 \in TableVersionStrings :
      LET r1 == get_best_torch_variant(v1)
      IN (/\ VersionLE(DenotedVersion(v1), DenotedVersion(cuda_version_str))
          /\ r1.kind = "variant")
         => /\ resolved.kind = "variant"
            /\ VersionLE(MinVerOf(r1), MinVerOf(resolved))

(***************************************************************************)
(* C21.  detect_nvidia_gpu() and detect_cuda_version() never raise: when   *)
(* the tool is found by no discovery path, or its invocation times out,    *)
(* exits non-zero, produces empty output or cannot be executed at all,     *)
(* they return None.                                                       *)
(***************************************************************************)
C21_ProbesNeverRaise ==
  /\ probe.pc # "raised"
  /\ (probe.pc = "returned"
        /\ (probe.nvsmi = "None" \/ probe.run \in RunRaises \cup {"empty"}))
     => probe.result = "None"

(***************************************************************************)
(* C30.  _find_matching_system_python returns the first candidate, in the  *)
(* order exact versioned name, version-flag launcher, major-only name,     *)
(* generic names, that reports the required version and has an invocable   *)
(* pip; a later candidate is never chosen when an earlier one qualifies.   *)
(***************************************************************************)
StatedOrder == <<"pythonX.Y", "__py_launcher__", "pythonX", "python", "python3">>

FirstQualifying(h, order) ==
  LET ok == {i \in 1..Len(order) : CandState(h, order[i]) = "ok"}
  IN IF ok = {} THEN "" ELSE order[CHOOSE i \in ok : \A j \in ok : i <= j]

C30_FirstInStatedOrderWins ==
  finder.pc = "returned" =>
    /\ finder.result.found <=> FirstQualifying(finder.host, StatedOrder) # ""
    /\ finder.result.cand = FirstQualifying(finder.host, StatedOrder)

(***************************************************************************)
(* C23.  The list of directories built by _register_dll_directories holds  *)
(* no directory twice, even when several discovery sources yield the same  *)
(* path; it holds exactly the yielded paths that are directories, in the   *)
(* order in which they were first yielded.                                 *)
(***************************************************************************)
FirstIndex(seq, x) ==
  CHOOSE i \in 1..Len(seq) : seq[i] = x /\ \A j \in 1..(i - 1) : seq[j] # x

DirsBuilt == mach.platform = "win32" /\ prep.pc \in {"register", "preload", "returned"}

C23_PlanHasNoDuplicates ==
  DirsBuilt =>
    LET yield == DiscoveryYield(mach)
        dirs == prep.dirs
    IN /\ \A i, j \in 1..Len(dirs) : i # j => dirs[i] # dirs[j]
       /\ \A k \in 1..Len(dirs) : Member(yield, dirs[k]) /\ IsDir(mach, dirs[k])
       /\ \A k \in 1..Len(yield) : IsDir(mach, yield[k]) => Member(dirs, yield[k])
       /\ \A i, j \in 1..Len(dirs) :
            i < j => FirstIndex(yield, dirs[i]) < FirstIndex(yield, dirs[j])

C23_Witness ==
  /\ DirsBuilt
  /\ prep.pc = "returned"
  /\ \E i, j \in 1..Len(DiscoveryYield(mach)) :
       /\ i < j
       /\ DiscoveryYield(mach)[i] = DiscoveryYield(mach)[j]
       /\ DiscoveryYield(mach)[i] = CudaBin
       /\ Member(prep.dirs, CudaBin)

(***************************************************************************)
(* C24.  For every directory in the search plan, _register_dll_directories *)
(* attempts registration with the OS loader regardless of registration     *)
(* failures of earlier directories, and after it returns every directory   *)
(* of the plan is an entry of PATH, including a directory whose path is a  *)
(* prefix of another entry already in PATH.                                *)
(***************************************************************************)
LastAttempts ==
  SubSeq(penv.dllDirs, Len(penv.dllDirs) - Len(prep.dirs) + 1, Len(penv.dllDirs))

C24_EveryPlanDirRegisteredAndOnPath ==
  (mach.platform = "win32" /\ prep.pc \in {"preload", "returned"}) =>
    /\ Len(penv.dllDirs) >= Len(prep.dirs)
    /\ LastAttempts = prep.dirs
    /\ \A k \in 1..Len(prep.dirs) : Member(SplitPath(penv.PATH), prep.dirs[k])

(***************************************************************************)
(* C28.  _prepare_torch_environment is idempotent on the process search    *)
(* state: after any later call with the same cache directory sys.path,     *)
(* PYTHONPATH and PATH are exactly as they were after the first call, and  *)
(* the cache directory is on sys.path once.                                *)
(***************************************************************************)
C28_PrepareIdempotent ==
  /\ \A k \in 2..Len(prep.after) : prep.after[k] = prep.after[1]
  /\ \A i, j \in 1..Len(penv.sysPath) :
       (penv.sysPath[i] = Base /\ penv.sysPath[j] = Base) => i = j

C28_Witness ==
  /\ Len(prep.after) >= 2
  /\ prep.pc = "returned"
  /\ mach.platform = "win32"
  /\ mach.meipass = "temp"
  /\ mach.torchTree
  /\ Member(SplitPath(penv.PATH), TorchLib)
  /\ Member(penv.sysPath, Base)

(***************************************************************************)
(* C25.  For every set of library files in torch/lib, the load order built *)
(* by _preload_torch_dlls places torch_python.dll (matched without regard  *)
(* to case) last whenever it is present, wherever its name sorts among the *)
(* other names and whether or not other names match a priority prefix.     *)
(***************************************************************************)
PlanBuilt == pre.pc \in {"load", "returned"}

C25_BridgeLast ==
  PlanBuilt =>
    \A f \in pre.files :
      IsBridge(f) =>
        /\ pre.load_order # <<>>
        /\ pre.load_order[Len(pre.load_order)] = f
        /\ \A k \in 1..(Len(pre.load_order) - 1) : pre.load_order[k] # f

C25_Witness ==
  /\ PlanBuilt
  /\ \E f, g, h \in pre.files :
       /\ IsBridge(f) /\ f # BridgeName
       /\ ~IsBridge(g) /\ HasPriorityPrefix(Lower(g)) /\ StrLess(Lower(f), Lower(g))
       /\ ~IsBridge(h) /\ ~HasPriorityPrefix(Lower(h)) /\ StrLess(Lower(f), Lower(h))
       /\ pre.load_order[Len(pre.load_order)] = f

(***************************************************************************)
(* C26.  Within the preload order the files follow the priority-prefix     *)
(* list: every math/compute and communication library comes before every   *)
(* core runtime library, these come before all non-priority files, and the *)
(* entry-bridge library comes after all of them.                           *)
(***************************************************************************)
MatchesOneOf(f, prefixes) ==
  \E k \in 1..Len(prefixes) : StartsWith(Lower(f), Lower(prefixes[k]))

\* the group of a file: 1 math/communication, 2 core runtime, 3 other, 4 bridge
LoadGroup(f) ==
  IF IsBridge(f) THEN 4
  ELSE IF MatchesOneOf(f, MathCommPrefixes) THEN 1
  ELSE IF MatchesOneOf(f, CoreRuntimePrefixes) THEN 2
  ELSE 3

C26_GroupsInPriorityOrder ==
  PlanBuilt =>
    \A i, j \in 1..Len(pre.load_order) :
      i < j => LoadGroup(pre.load_order[i]) <= LoadGroup(pre.load_order[j])

(***************************************************************************)
(* C27.  Every library file found in torch/lib gets exactly one load       *)
(* attempt per call: the load order holds every file once, and after the   *)
(* call the attempts are the load order in full, whatever loads failed;    *)
(* the function returns normally.                                          *)
(***************************************************************************)
C27_EveryFileAttemptedOnce ==
  /\ PlanBuilt =>
       /\ \A f \in pre.files :
            Cardinality({k \in 1..Len(pre.load_order) : pre.load_order[k] = f}) = 1
       /\ Len(pre.load_order) = Cardinality(pre.files)
       /\ pre.attempts = SubSeq(pre.load_order, 1, pre.i - 1)
  /\ pre.pc = "returned" => pre.attempts = pre.load_order

C27_Witness ==
  /\ pre.pc = "returned"
  /\ pre.failed
  /\ Cardinality(pre.files) >= 3
  /\ \E f \in pre.files : IsBridge(f)
  /\ pre.attempts = pre.load_order

(***************************************************************************)
(* C31.  In a frozen executable the in-process strategy (pip imported as a *)
(* library, strategy "a") is never attempted: _install_torch never stands  *)
(* at strategy 1, no attempt of it is recorded, and the first strategy     *)
(* attempted is the matching external interpreter (strategy "b").          *)
(***************************************************************************)
StrategyAttempts == SelectSeq(proc.events, LAMBDA e : e.ev \in StrategyEvents)

C32_SignalForcesShutdown ==
  sup.signal # "none" =>
    /\ sup.state = "terminated"
    /\ sup.exitVia = "os._exit"

(***************************************************************************)
(* C33.  A forced shutdown (parent gone, stdin at end-of-stream, shutdown  *)
(* request) terminates the whole process subtree before the process        *)
(* itself: after a forced shutdown no helper child process is left         *)
(* running.                                                                *)
(***************************************************************************)
ForcedShutdownDone == sup.state = "terminated" /\ sup.exitVia = "os._exit"

C33_ForcedShutdownLeavesNoHelper == ForcedShutdownDone => ~sup.helper

(***************************************************************************)
(* C34.  Termination is idempotent under concurrency: whatever termination *)
(* triggers arrive (repeated /shutdown requests, parent death, stdin at    *)
(* end-of-stream) and however the serving thread, the kill_server threads  *)
(* and the watchdog threads interleave, the process terminates exactly     *)
(* once - a trigger that its thread has handled to the end has terminated  *)
(* the process - and no trigger after the first touches the lock file: the *)
(* lock cleanup runs at most once, and never on the forced path.           *)
(***************************************************************************)
TerminatesAtMostOnce ==
  /\ sup.terminations <= 1
  /\ sup.state = "terminated" <=> sup.terminations = 1
  /\ sup.lockCleanups <= 1
  /\ sup.exitVia = "os._exit" => sup.lockCleanups = 0

\* a trigger whose handling thread has run to its end
TriggerHandled ==
  \/ sup.stdin = "eof" /\ sup.watcher = "ended"
  \/ sup.parentSupplied /\ ~sup.parentAlive /\ sup.monitor = "ended"

C34_TerminationIdempotent ==
  /\ TerminatesAtMostOnce
  /\ TriggerHandled => sup.terminations = 1

(***************************************************************************)
(* C35.  Whenever install_torch() or load_torch() ends in a terminal       *)
(* failure, a record of that failure has been appended to the persistent   *)
(* log file before the error leaves the function.                          *)
(***************************************************************************)
C35_TerminalFailureIsLogged ==
  proc.pc = "raised" => proc.failureLogged

(***************************************************************************)
(* C36.  In every reachable state of the cache, a process killed between   *)
(* any two steps of _install_torch included, the completion marker is      *)
(* present only if the variant-tag file is present: the tag is written     *)
(* before the marker, and cleaning a partial cache removes both together.  *)
(***************************************************************************)
C36_MarkerImpliesVariantTag ==
  /\ disk.setupComplete => disk.variantFile # "absent"
  /\ (disk.setupComplete \/ disk.variantFile # "absent") => disk.cacheDir

\* a second run finished the cache after the first was killed between the
\* write of the tag and the write of the marker
C36_Witness ==
  /\ proc.runs = 2
  /\ stale = FALSE
  /\ Happened("rmtree")
  /\ Happened("write_marker")
  /\ disk.setupComplete
  /\ disk.variantFile # "absent"

(***************************************************************************)
(* C37.  In a frozen process, whenever load_torch() returns normally the   *)
(* runtime importable in the process reports CUDA support; in particular a *)
(* CPU-only runtime that was importable at entry is not the one in use     *)
(* when load_torch() reports 'Ready' from a valid cache.                   *)
(***************************************************************************)
C37_FrozenLoadEndsWithCuda ==
  (build.frozen /\ proc.entry = "load" /\ proc.pc = "done")
    => HasCuda(proc.importedTorch)

(***************************************************************************)
(* C38.  No permanent lockout: after the instance that owns the lock has   *)
(* terminated by any path (the os._exit paths, which skip the lock         *)
(* cleanup, included), an instance started with no other instance running  *)
(* acquires the lock and proceeds: it never exits because of the lock the  *)
(* ended instance left behind.                                             *)
(***************************************************************************)
InstanceRuns(j) == inst[j].pc \notin {"notstarted", "dead", "exited"}

C38_NoLockoutAfterOwnerEnds ==
  [][ \A i \in Instances :
        (/\ inst[i].pc = "open_process"
         /\ \A j \in Instances \ {i} : ~InstanceRuns(j)
         /\ inst[i].old_pid \in Instances \ {i}
         /\ inst'[i].pc # "open_process")
        => inst'[i].pc = "write" ]_vars

(***************************************************************************)
(* C39.  After any sequence of /generate requests of either type, each of  *)
(* which may succeed or fail at loading, generation or post-processing, at *)
(* most one of the two models (ACE-Step, Stable Audio) is in the loaded    *)
(* state (is_loaded) at any time, between two steps of a handler included. *)
(***************************************************************************)
C39_AtMostOneModelLoaded ==
  ~(gen.acestep.is_loaded /\ gen.stable_audio.is_loaded)

\* a request found the other model still loaded, unloaded it and loaded
\* its own
C39_Witness ==
  /\ gen.switched
  /\ gen.pc = "run"
  /\ gen[OwnModel(gen.type)].is_loaded
  /\ ~gen[OtherModel(gen.type)].is_loaded

(***************************************************************************)
(* C40.  Once a /generate request has produced audio, the model that       *)
(* produced it is unloaded before the handler finishes, with a success     *)
(* response or with an error raised during post-processing or saving: no   *)
(* model stays loaded between requests.                                    *)
(***************************************************************************)
C40_UnloadedWhenHandlerEnds ==
  (gen.pc = "idle" /\ gen.produced) =>
    (~gen.acestep.is_loaded /\ ~gen.stable_audio.is_loaded)

====
